---- MODULE Spec2Model ----
(***************************************************************************)
(* A state-machine model of kati (src/src-rs): the regeneration check of   *)
(* regen.rs, the directory tree of the find emulator (find.rs), the symbol *)
(* table and the evaluator (symtab.rs, eval.rs, expr.rs, func.rs) and the  *)
(* dependency planner (dep.rs).  Each subsystem has its own specification; *)
(* a specification leaves the variables of the other subsystems alone.     *)
(*                                                                         *)
(* Byte strings are sequences of one-character strings, so that the        *)
(* pattern operations of strutil.rs can be computed.  Indices are 1-based; *)
(* an Option<usize> index is 0 for None.                                   *)
(***************************************************************************)
EXTENDS Integers, Sequences, FiniteSets, TLC

(***************************************************************************)
(* Bounds.                                                                 *)
(***************************************************************************)
MaxGlobs == 2
MaxCmds == 2
NumReaders == 2
MaxReads == 1
MaxFinds == 2
MaxStack == 5
MaxStmts == 3
MaxScoped == 1
MaxWork == 6
MaxPlanStack == 6
MaxAssigns == 2

(***************************************************************************)
(* State.                                                                  *)
(***************************************************************************)
\* flags.rs: the command-line flags the model reads
VARIABLES FLAGS

\* regen.rs: the stamp check
VARIABLES
  globs,          \* StampChecker.globs
  commands,       \* StampChecker.commands
  files,          \* content of the file $(file >f) / $(file >>f) replays write
  needs_regen,    \* check_step2's Mutex<Result<bool>>
  glob_pc,        \* glob worker: "idle", "loop", "lock", "exit"
  glob_i,         \* glob worker: index of the next glob to check
  cmd_pc,         \* command worker: "idle", "loop", "lock", "exit"
  cmd_i,          \* command worker: index of the next command to check
  cmd_res,        \* command worker: the result it is about to report
  shell_runs,     \* command worker: the commands it gave to run_command
  stderr,         \* messages printed by the workers
  regen_pc,       \* needs_regen(): "step1", "step2", "done"
  regen_ret       \* needs_regen()'s return value, "none" until it returns

varsRegen == <<globs, commands, files, needs_regen, glob_pc, glob_i,
               cmd_pc, cmd_i, cmd_res, shell_runs, stderr, regen_pc, regen_ret>>

\* find.rs: the directory tree and the concurrent callers of inner()
VARIABLES
  fs,             \* the file system under the current directory
  nodes,          \* DirentNode per entry: inner (OnceLock), init_data (Mutex)
  rd_node,        \* the node the concurrent readers read
  once_running,   \* the reader inside inner.get_or_init's closure, 0 if none
  init_mu,        \* the reader holding the init_data mutex, 0 if none
  rd_pc,          \* per reader: position inside DirentNode::inner
  rd_follows,     \* per reader: the follows_symlinks argument
  rd_val,         \* per reader: the value its closure computed
  rd_ret,         \* per reader: what its last call returned
  rd_calls,       \* per reader: calls made
  init_runs       \* how often the closure of rd_node has run

varsTree == <<fs, nodes>>

varsInner == <<rd_node, once_running, init_mu, rd_pc, rd_follows, rd_val,
               rd_ret, rd_calls, init_runs>>

\* find.rs: handle_find and run_find
VARIABLES
  find_pc,        \* "idle", or "run" while handle_find walks its bases
  find_count,     \* find commands handled so far
  find_i,         \* handle_find: index of the next of fc.finddirs
  fc,             \* the FindCommand being handled
  bases,          \* the (path, node) pairs find_nodes gave, still to walk
  stack,          \* the frames of run_find, innermost last
  cur_read_dirs,  \* the directory nodes on the current traversal path
  results,        \* handle_find's results (run_find's out)
  find_log,       \* diagnostics: "loop", "symlink", "unsupported", ...
  find_ret        \* what the last handle_find returned, and its output

varsFind == <<find_pc, find_count, find_i, fc, bases, stack, cur_read_dirs, results,
              find_log, find_ret>>

\* symtab.rs, eval.rs: the symbol table and the evaluator's assignments
VARIABLES
  symbol_data,    \* Symtab.symbol_data: the variable bound to each symbol
  sv_stack,       \* the live ScopedGlobalVars, innermost last
  ev_phase,       \* is_bootstrap / is_commandline: "bootstrap", "commandline", "file"
  ev_error,       \* the error evaluation ended with, "" while it runs
  stmt_count      \* statements evaluated so far

varsSym == <<symbol_data, sv_stack, ev_phase, ev_error, stmt_count>>

\* expr.rs, func.rs: the expansion of a value
VARIABLES
  exp_pc,           \* "idle", "running", "done"
  work,             \* the calls of eval that have not returned, innermost last
  bufs,             \* the output buffers of those calls, innermost last
  symbols_for_eval, \* Evaluator.symbols_for_eval
  eval_depth        \* Evaluator.eval_depth

varsExp == <<exp_pc, work, bufs, symbols_for_eval, eval_depth>>

\* dep.rs: DepBuilder and the recursion of build_plan
VARIABLES
  plan_ev,          \* the Evaluator make_dep gets: its rules and rule_vars
  rules,            \* DepBuilder.rules: the RuleMerger of each target
  implicit_rules,   \* DepBuilder.implicit_rules: the entries of the RuleTrie
  suffix_rules,     \* DepBuilder.suffix_rules: output suffix -> rules
  first_rule,       \* DepBuilder.first_rule
  phony,            \* DepBuilder.phony
  src_files,        \* the files std::fs::exists answers true for
  done,             \* DepBuilder.done: output -> index of its DepNode
  dep_nodes,        \* the DepNodes allocated so far, in allocation order
  plan_pc,          \* "new" before DepBuilder::new, then build(): "idle",
                    \* "building", "done"
  plan_targets,     \* build(): the targets not yet planned
  plan_stack,       \* the activations of build_plan, innermost last
  plan_ret,         \* build()'s nodes: <<target, node>>
  plan_err,         \* the error make_dep returns, "" if none
  plan_warn         \* the warnings DepBuilder::new has printed

varsDep == <<plan_ev, rules, implicit_rules, suffix_rules, first_rule, phony,
             src_files, done, dep_nodes, plan_pc, plan_targets, plan_stack,
             plan_ret, plan_err, plan_warn>>

\* parser.rs, eval.rs: a makefile is parsed, then its statements evaluated
VARIABLES
  parser,           \* the Parser of parse_file: its fields
  if_open,          \* history: if_stack and out_stmts as they were before each
                    \* conditional that is still open, innermost last
  mk_pc,            \* "idle", "parse", "eval", "done"
  eval_todo,        \* the statements eval has still to visit, next first
  mk_rules,         \* Evaluator.rules
  in_rule,          \* Evaluator.in_rule
  ev_vars,          \* the global variables assignments have set
  mk_rule_vars,        \* Evaluator.rule_vars: <<target, variable>> pairs
  reparsed,         \* the recipe lines eval_command gave back to the parser
  mk_err            \* the fatal error parsing or evaluation ended with, "" if none

varsMk == <<parser, if_open, mk_pc, eval_todo, mk_rules, in_rule, ev_vars, mk_rule_vars,
            reparsed, mk_err>>

\* strutil.rs, dep.rs: a function applied to one input; command.rs: the
\* recipes of the targets evaluated one target after the other
VARIABLES
  pf_in,                    \* the arguments the function is applied to
  pf_out,                   \* what it returned, <<>> before the call
  avoid_io,                 \* Evaluator.avoid_io
  delayed_output_commands,  \* Evaluator.delayed_output_commands
  ce_node,                  \* CommandEvaluator.current_dep_node, <<>> for None
  found_new_inputs,         \* CommandEvaluator.found_new_inputs
  ce_todo,                  \* the recipe lines eval has still to evaluate
  ce_result,                \* the result of eval: as built so far, then as returned
  ce_pc                     \* "idle", "ready", "cmds", "failed"

varsCmd == <<pf_in, pf_out, avoid_io, delayed_output_commands, ce_node, found_new_inputs,
             ce_todo, ce_result, ce_pc>>
varsEval == <<avoid_io, delayed_output_commands, ce_node, found_new_inputs, ce_todo,
              ce_result, ce_pc>>

\* symtab.rs: the table of the interned symbols and the handles given out
VARIABLES
  symbols,                  \* Symtab.symbols: the byte string of each handle, from 0
  symtab,                   \* Symtab.symtab: the handle of each byte string
  interned,                 \* the pairs <<byte string, handle>> that intern has answered
  intern_pc                 \* "ready", "panicked"

varsSymtab == <<symbols, symtab, interned, intern_pc>>

\* exec.rs: the direct execution of the planned nodes
VARIABLES
  exec_nodes,               \* the DepNode of each output of the plan
  exec_roots,               \* the roots handed to exec
  exec_files,               \* the timestamp of each file, None where there is none
  exec_done,                \* Executor.done
  exec_stack,               \* the calls of exec_node that have not returned
  exec_root_i,              \* the index of the root exec is at
  exec_ran,                 \* the outputs whose commands were run, in order
  exec_stderr,              \* the warnings and errors printed
  exec_stdout,              \* the lines printed by exec itself
  exec_pc                   \* "idle", "running", "done", "failed"

varsExec == <<exec_nodes, exec_roots, exec_files, exec_done, exec_stack, exec_root_i,
              exec_ran, exec_stderr, exec_stdout, exec_pc>>

varsRun == <<varsSymtab, varsExec>>

vars == <<FLAGS, varsRegen, varsTree, varsInner, varsFind, varsSym, varsExp, varsDep,
          varsMk, varsCmd, varsRun>>

\* What the actions of one subsystem leave alone
notRegen == <<FLAGS, varsTree, varsInner, varsFind, varsSym, varsExp, varsDep, varsMk, varsCmd,
    varsRun>>
notInner == <<FLAGS, fs, varsRegen, varsFind, varsSym, varsExp, varsDep, varsMk, varsCmd,
    varsRun>>
notFind == <<FLAGS, fs, varsRegen, varsInner, varsSym, varsExp, varsDep, varsMk, varsCmd,
    varsRun>>
notSym == <<FLAGS, varsRegen, varsTree, varsInner, varsFind, varsExp, varsDep, varsMk, varsCmd,
    varsRun>>
notExp == <<FLAGS, varsRegen, varsTree, varsInner, varsFind, symbol_data, sv_stack,
            ev_phase, stmt_count, varsDep, varsMk, varsCmd,
    varsRun>>
notAssign == <<FLAGS, varsRegen, varsTree, varsInner, varsFind, varsDep, varsMk, varsCmd,
    varsRun>>
notPlan == <<FLAGS, varsRegen, varsTree, varsInner, varsFind, varsSym, varsExp, varsMk, varsCmd,
    varsRun>>
notMk == <<FLAGS, varsRegen, varsTree, varsInner, varsFind, varsSym, varsExp, varsDep,
          varsCmd,
    varsRun>>
notCmd == <<FLAGS, varsRegen, varsTree, varsInner, varsFind, varsSym, varsExp, varsDep,
           varsMk,
    varsRun>>
notSymtab == <<FLAGS, varsRegen, varsTree, varsInner, varsFind, varsSym, varsExp, varsDep,
              varsMk, varsCmd, varsExec>>
notExec == <<FLAGS, varsRegen, varsTree, varsInner, varsFind, varsSym, varsExp, varsDep,
            varsMk, varsCmd, varsSymtab>>
notDep == <<notPlan, plan_ev, rules, implicit_rules, suffix_rules, first_rule, phony,
            src_files, plan_warn>>

\* Option::None
None == <<"None">>

(***************************************************************************)
(* The state of a subsystem that a specification does not run.             *)
(***************************************************************************)
\* The flags as flags.rs leaves them when none is given
DefaultFlags ==
  [ignore_dirty_pattern |-> None, no_ignore_dirty_pattern |-> None,
   werror_find_emulator |-> FALSE, use_ninja_validations |-> FALSE,
   werror_overriding_commands |-> FALSE, is_silent_mode |-> FALSE]

IdleRegen ==
  /\ globs = <<>> /\ commands = <<>>
  /\ files = <<>>
  /\ needs_regen = "OkFalse"
  /\ glob_pc = "idle" /\ glob_i = 1
  /\ cmd_pc = "idle" /\ cmd_i = 1 /\ cmd_res = "OkFalse" /\ shell_runs = <<>>
  /\ stderr = <<>>
  /\ regen_pc = "idle"
  /\ regen_ret = "none"

IdleInner ==
  /\ rd_node = 0 /\ once_running = 0 /\ init_mu = 0
  /\ rd_pc = <<>> /\ rd_follows = <<>> /\ rd_val = <<>> /\ rd_ret = <<>>
  /\ rd_calls = <<>> /\ init_runs = 0

IdleTree == fs = <<>> /\ nodes = <<>>

IdleSym ==
  /\ symbol_data = <<>> /\ sv_stack = <<>> /\ ev_phase = "bootstrap"
  /\ ev_error = "" /\ stmt_count = 0

IdleExp ==
  /\ exp_pc = "idle" /\ work = <<>> /\ bufs = <<>> /\ symbols_for_eval = {}
  /\ eval_depth = 0

IdleDep ==
  /\ plan_ev = <<>> /\ rules = <<>> /\ implicit_rules = <<>> /\ suffix_rules = <<>>
  /\ first_rule = None /\ phony = {}
  /\ src_files = {} /\ done = <<>> /\ dep_nodes = <<>>
  /\ plan_pc = "idle" /\ plan_targets = <<>> /\ plan_stack = <<>>
  /\ plan_ret = <<>> /\ plan_err = "" /\ plan_warn = <<>>

IdleFind ==
  /\ find_pc = "idle" /\ find_count = 0 /\ find_i = 1 /\ fc = <<>>
  /\ bases = <<>>
  /\ stack = <<>> /\ cur_read_dirs = <<>> /\ results = <<>>
  /\ find_log = <<>> /\ find_ret = <<>>

IdleMk ==
  /\ parser = <<>> /\ if_open = <<>> /\ mk_pc = "idle" /\ eval_todo = <<>>
  /\ mk_rules = <<>> /\ in_rule = FALSE /\ ev_vars = <<>> /\ mk_rule_vars = {}
  /\ reparsed = <<>> /\ mk_err = ""

IdleEval ==
  /\ avoid_io = FALSE
  /\ delayed_output_commands = <<>> /\ ce_node = <<>> /\ found_new_inputs = FALSE
  /\ ce_todo = <<>> /\ ce_result = <<>> /\ ce_pc = "idle"

IdleCmd == pf_in = <<>> /\ pf_out = <<>> /\ IdleEval

IdleSymtab == symbols = <<>> /\ symtab = <<>> /\ interned = {} /\ intern_pc = "ready"

IdleExec ==
  /\ exec_nodes = <<>> /\ exec_roots = <<>> /\ exec_files = <<>> /\ exec_done = <<>>
  /\ exec_stack = <<>> /\ exec_root_i = 0 /\ exec_ran = <<>> /\ exec_stderr = <<>>
  /\ exec_stdout = <<>> /\ exec_pc = "idle"

IdleRun == IdleSymtab /\ IdleExec

(***************************************************************************)
(* strutil.rs                                                              *)
(***************************************************************************)
SeqsUpTo(S, n) == UNION {[1..k -> S] : k \in 0..n}

starts_with(s, p) == Len(p) <= Len(s) /\ SubSeq(s, 1, Len(p)) = p

ends_with(s, p) == Len(p) <= Len(s) /\ SubSeq(s, Len(s) - Len(p) + 1, Len(s)) = p

\* memchr: the first position of c in s, 0 when there is none
memchr(c, s) ==
  IF \E i \in 1..Len(s) : s[i] = c
  THEN CHOOSE i \in 1..Len(s) : s[i] = c /\ \A j \in 1..(i - 1) : s[j] # c
  ELSE 0

\* memrchr: the last position of c in s, 0 when there is none
memrchr(c, s) ==
  IF \E i \in 1..Len(s) : s[i] = c
  THEN CHOOSE i \in 1..Len(s) : s[i] = c /\ \A j \in (i + 1)..Len(s) : s[j] # c
  ELSE 0

\* Pattern::new: a pattern is its bytes; percent_index is recomputed on use
percent_index(pat) == memchr("%", pat)

\* match_impl that asks for a byte between the prefix and the suffix
match_impl_nonempty(pat, str, pi) ==
  /\ starts_with(str, SubSeq(pat, 1, pi - 1))
  /\ ends_with(str, SubSeq(pat, pi + 1, Len(pat)))
  /\ Len(str) >= Len(pat)

match_impl(pat, str, pi) ==
  /\ starts_with(str, SubSeq(pat, 1, pi - 1))
  /\ ends_with(str, SubSeq(pat, pi + 1, Len(pat)))

matches(pat, str) ==
  IF percent_index(pat) # 0 THEN match_impl(pat, str, percent_index(pat))
  ELSE pat = str

(***************************************************************************)
(* regen.rs: the stamp check.                                              *)
(***************************************************************************)
\* --ignore_dirty / --no_ignore_dirty configurations
FlagsPool ==
  { DefaultFlags,
    [DefaultFlags EXCEPT !.ignore_dirty_pattern = <<"o", "%">>],
    [DefaultFlags EXCEPT !.ignore_dirty_pattern = <<"o", "%">>,
                         !.no_ignore_dirty_pattern = <<"o", "k", "%">>] }

should_ignore_dirty(s) ==
  IF FLAGS.ignore_dirty_pattern = None THEN FALSE
  ELSE /\ matches(FLAGS.ignore_dirty_pattern, s)
       /\ ~(IF FLAGS.no_ignore_dirty_pattern = None THEN FALSE
            ELSE matches(FLAGS.no_ignore_dirty_pattern, s))

\* What glob(pat) yields now: the matches, or an error
glob(pat) ==
  CASE pat = <<"s", "*">> -> [ok |-> TRUE, files |-> <<"s1">>]
    [] pat = <<"o", "k", "*">> -> [ok |-> TRUE, files |-> <<>>]
    [] OTHER -> [ok |-> FALSE, files |-> <<>>]

\* Recorded glob results: clean and changed ones, changed ones under ignored
\* and not ignored patterns, and one whose glob now fails
GlobPool ==
  { [pat |-> <<"s", "*">>, result |-> <<"s1">>],
    [pat |-> <<"s", "*">>, result |-> <<>>],
    [pat |-> <<"o", "k", "*">>, result |-> <<"k1">>],
    [pat |-> <<"e", "*">>, result |-> <<>>] }

glob_changed(gr) ==
  IF glob(gr.pat).ok THEN glob(gr.pat).files # gr.result ELSE TRUE

check_glob_result(gr) ==
  IF glob_changed(gr)
  THEN (IF should_ignore_dirty(gr.pat) THEN FALSE ELSE TRUE)
  ELSE FALSE

\* A recorded command with the answers the file system gives about it now:
\* present = the paths that exist, modified = the paths newer than gen_time,
\* open_ok = cmd can be opened for writing, parse_ok / chdir = find::parse's
\* answer, run_ok / output = run_command's; links = the paths that are
\* symbolic links, target_missing / target_modified = those of them whose
\* target is gone / is newer than gen_time.  append says whether the $(file)
\* call that recorded a Write or Append was $(file >>cmd,result).
ShellResult(op, cmd, result, env) ==
  [op |-> op, cmd |-> cmd, result |-> result, append |-> env.append,
   missing_dirs |-> env.missing_dirs, files |-> env.files,
   read_dirs |-> env.read_dirs, present |-> env.present,
   modified |-> env.modified, links |-> env.links,
   target_missing |-> env.target_missing,
   target_modified |-> env.target_modified, open_ok |-> env.open_ok,
   parse_ok |-> env.parse_ok, chdir |-> env.chdir,
   run_ok |-> env.run_ok, output |-> env.output]

Env0 ==
  [missing_dirs |-> {}, files |-> {}, read_dirs |-> {}, present |-> {},
   modified |-> {}, links |-> {}, target_missing |-> {}, target_modified |-> {},
   open_ok |-> TRUE, parse_ok |-> TRUE, chdir |-> None,
   run_ok |-> TRUE, output |-> <<>>, append |-> FALSE]

CommandPool ==
  { ShellResult("Read", <<"r">>, <<>>,
                [Env0 EXCEPT !.present = {<<"r">>}, !.modified = {<<"r">>}]),
    ShellResult("Write", <<"f">>, <<"w">>, Env0),
    ShellResult("Write", <<"f">>, <<"a">>, [Env0 EXCEPT !.append = TRUE]),
    ShellResult("Append", <<"f">>, <<"a">>, [Env0 EXCEPT !.append = TRUE]),
    ShellResult("Append", <<"g">>, <<"a">>,
                [Env0 EXCEPT !.open_ok = FALSE, !.append = TRUE]),
    ShellResult("Find", <<"c">>, <<"1">>,
                [Env0 EXCEPT !.read_dirs = {<<".">>, <<"o", "d">>, <<"d">>},
                             !.present = {<<"d">>, <<"o", "d">>},
                             !.modified = {<<"o", "d">>},
                             !.output = <<"2">>]) }

\* should_run_command where every recorded read_dir counts, the top
\* directory and the ignored ones too
should_run_command_every_dir(sr) ==
  IF sr.op # "Find" THEN TRUE
  ELSE \/ \E dir \in sr.missing_dirs : dir \in sr.present
       \/ \E file \in sr.files : file \notin sr.present
       \/ \E dir \in sr.read_dirs :
            \/ dir \notin sr.present
            \/ dir \in sr.modified
            \/ /\ dir \in sr.links
               /\ dir \in sr.target_missing \/ dir \in sr.target_modified

should_run_command(sr) ==
  IF sr.op # "Find" THEN TRUE
  ELSE \/ \E dir \in sr.missing_dirs : dir \in sr.present
       \/ \E file \in sr.files : file \notin sr.present
       \/ \E dir \in sr.read_dirs :
            /\ ~(dir = <<>> \/ dir = <<".">> \/ should_ignore_dirty(dir))
            /\ \/ dir \notin sr.present
               \/ dir \in sr.modified
               \/ /\ dir \in sr.links
                  /\ dir \in sr.target_missing \/ dir \in sr.target_modified

\* check_shell_result: whether it gets as far as run_command
runs_command(sr) ==
  /\ sr.op \notin {"ReadMissing", "Read", "Write", "Append"}
  /\ should_run_command(sr)
  /\ sr.parse_ok
  /\ ~(sr.chdir # None /\ should_ignore_dirty(sr.chdir))

\* check_shell_result's return value: "OkTrue", "OkFalse" or "Err"
check_shell_result(sr) ==
  CASE sr.op = "ReadMissing" ->
         (IF sr.cmd \in sr.present THEN "OkTrue" ELSE "OkFalse")
    [] sr.op = "Read" ->
         (IF sr.cmd \in sr.present /\ sr.cmd \in sr.modified
          THEN "OkTrue" ELSE "OkFalse")
    [] sr.op \in {"Write", "Append"} ->
         (IF sr.open_ok THEN "OkFalse" ELSE "Err")
    [] OTHER ->
         IF ~should_run_command(sr) THEN "OkFalse"
         ELSE IF ~sr.parse_ok THEN "Err"
         ELSE IF sr.chdir # None /\ should_ignore_dirty(sr.chdir) THEN "OkFalse"
         ELSE IF ~sr.run_ok THEN "Err"
         ELSE IF sr.result # sr.output THEN "OkTrue"
         ELSE "OkFalse"

\* The file a replayed $(file >cmd,result) or $(file >>cmd,result) leaves:
\* opened without truncation, written from the start or from the end
write_file(sr, old) ==
  IF sr.op = "Append" THEN old \o sr.result
  ELSE sr.result \o SubSeq(old, Len(sr.result) + 1, Len(old))

check_shell_result_files(sr, old) ==
  IF sr.op \in {"Write", "Append"} /\ sr.open_ok /\ sr.cmd \in DOMAIN old
  THEN [old EXCEPT ![sr.cmd] = write_file(sr, old[sr.cmd])]
  ELSE old

\* file_write_func: the file $(file >name,text) or $(file >>name,text)
\* leaves, truncated unless appended to
file_write_func(old, append, text) == IF append THEN old \o text ELSE text

\* The files the generation run left: the $(file) calls behind the recorded
\* commands from the i-th on are made on the files fl
RECURSIVE generated(_, _, _)
generated(cmds, i, fl) ==
  IF i > Len(cmds) THEN fl
  ELSE IF cmds[i].op \in {"Write", "Append"} /\ cmds[i].cmd \in DOMAIN fl
  THEN generated(cmds, i + 1,
         [fl EXCEPT ![cmds[i].cmd] = file_write_func(@, cmds[i].append, cmds[i].result)])
  ELSE generated(cmds, i + 1, fl)

\* The files before the generation run
FilesBefore == [f \in {<<"f">>} |-> <<"x", "y">>]

\* Result<bool>::unwrap_or(false): what the call would be with the other default
unwrap_or_false(cell) == IF cell = "OkTrue" THEN TRUE ELSE FALSE

\* Result<bool>::unwrap_or(true) on the cell check_step2 returns
unwrap_or_true(cell) == IF cell = "OkFalse" THEN FALSE ELSE TRUE

InitRegen ==
  /\ FLAGS \in FlagsPool
  /\ globs \in SeqsUpTo(GlobPool, MaxGlobs)
  /\ commands \in SeqsUpTo(CommandPool, MaxCmds)
  /\ files = generated(commands, 1, FilesBefore)
  /\ needs_regen = "OkFalse"
  /\ glob_pc = "idle" /\ glob_i = 1
  /\ cmd_pc = "idle" /\ cmd_i = 1 /\ cmd_res = "OkFalse" /\ shell_runs = <<>>
  /\ stderr = <<>>
  /\ regen_pc = "step1"
  /\ regen_ret = "none"
  /\ IdleTree /\ IdleInner /\ IdleFind /\ IdleSym /\ IdleExp /\ IdleDep /\ IdleMk /\ IdleCmd /\ IdleRun

\* needs_regen(): is_missing_outputs() and check_step1(); early says whether
\* one of them asked for regeneration.  Otherwise check_step2 spawns the
\* two workers.
CheckStep1 ==
  /\ UNCHANGED notRegen
  /\ regen_pc = "step1"
  /\ \E early \in BOOLEAN :
       IF early
       THEN /\ regen_pc' = "done" /\ regen_ret' = TRUE
            /\ UNCHANGED <<glob_pc, cmd_pc>>
       ELSE /\ regen_pc' = "step2" /\ regen_ret' = regen_ret
            /\ glob_pc' = "loop" /\ cmd_pc' = "loop"
  /\ UNCHANGED <<globs, commands, files, needs_regen, glob_i, cmd_i,
                 cmd_res, shell_runs, stderr>>

\* glob worker: one iteration of `for gr in &self.globs`
GlobCheck ==
  /\ UNCHANGED notRegen
  /\ glob_pc = "loop"
  /\ IF glob_i > Len(globs)
     THEN glob_pc' = "exit" /\ glob_i' = glob_i
     ELSE /\ glob_i' = glob_i + 1
          /\ glob_pc' = IF check_glob_result(globs[glob_i]) THEN "lock"
                        ELSE "loop"
  /\ UNCHANGED <<globs, commands, files, needs_regen, cmd_pc, cmd_i,
                 cmd_res, shell_runs, stderr, regen_pc, regen_ret>>

\* glob worker: lock the cell, set it if it is still Ok(false), break
GlobLock ==
  /\ UNCHANGED notRegen
  /\ glob_pc = "lock"
  /\ IF needs_regen = "OkFalse"
     THEN needs_regen' = "OkTrue" /\ stderr' = Append(stderr, "glob")
     ELSE UNCHANGED <<needs_regen, stderr>>
  /\ glob_pc' = "exit"
  /\ UNCHANGED <<globs, commands, files, glob_i, cmd_pc, cmd_i,
                 cmd_res, shell_runs, regen_pc, regen_ret>>

\* command worker: one iteration of `for sr in &self.commands`
CmdCheck ==
  /\ UNCHANGED notRegen
  /\ cmd_pc = "loop"
  /\ IF cmd_i > Len(commands)
     THEN cmd_pc' = "exit" /\ UNCHANGED <<cmd_i, cmd_res, files, shell_runs>>
     ELSE /\ cmd_i' = cmd_i + 1
          /\ cmd_res' = check_shell_result(commands[cmd_i])
          /\ shell_runs' = IF runs_command(commands[cmd_i])
                           THEN Append(shell_runs, commands[cmd_i].cmd)
                           ELSE shell_runs
          /\ files' = check_shell_result_files(commands[cmd_i], files)
          /\ cmd_pc' = IF check_shell_result(commands[cmd_i]) = "OkFalse"
                       THEN "loop" ELSE "lock"
  /\ UNCHANGED <<globs, commands, needs_regen, glob_pc, glob_i,
                 stderr, regen_pc, regen_ret>>

\* command worker that stores its result whatever the cell holds
CmdLock_overwriting ==
  /\ UNCHANGED notRegen
  /\ cmd_pc = "lock"
  /\ needs_regen' = cmd_res
  /\ stderr' = IF cmd_res = "OkTrue" THEN Append(stderr, "cmd") ELSE stderr
  /\ cmd_pc' = "exit"
  /\ UNCHANGED <<globs, commands, files, glob_pc, glob_i, cmd_i,
                 cmd_res, shell_runs, regen_pc, regen_ret>>

\* command worker: lock the cell, store Ok(true) or the error if the cell is
\* still Ok(false), break
CmdLock ==
  /\ UNCHANGED notRegen
  /\ cmd_pc = "lock"
  /\ IF needs_regen = "OkFalse"
     THEN /\ needs_regen' = cmd_res
          /\ stderr' = IF cmd_res = "OkTrue" THEN Append(stderr, "cmd")
                       ELSE stderr
     ELSE UNCHANGED <<needs_regen, stderr>>
  /\ cmd_pc' = "exit"
  /\ UNCHANGED <<globs, commands, files, glob_pc, glob_i, cmd_i,
                 cmd_res, shell_runs, regen_pc, regen_ret>>

\* thread::scope has joined both workers; check_step2 returns the cell and
\* needs_regen() finishes: the stamp's time is rewritten when nothing asked
\* for regeneration, and a stamp that cannot be opened asks for it
CheckStep2Return ==
  /\ UNCHANGED notRegen
  /\ regen_pc = "step2" /\ glob_pc = "exit" /\ cmd_pc = "exit"
  /\ \E stamp_ok \in BOOLEAN :
       regen_ret' = IF unwrap_or_true(needs_regen) THEN TRUE
                    ELSE IF ~stamp_ok THEN TRUE
                    ELSE FALSE
  /\ regen_pc' = "done"
  /\ UNCHANGED <<globs, commands, files, needs_regen, glob_pc, glob_i,
                 cmd_pc, cmd_i, cmd_res, shell_runs, stderr>>

\* Recorded find commands and what the file system says about them now.
\* The command recorded that m was missing (missing), that it found f
\* (found), and that it read the directories dirs; now is what became of
\* them: m exists or not, f exists or not, the directory d is as it was,
\* newer, removed, or a symbolic link whose target is as it was, newer or
\* gone, and the directories . and od are newer or not.
FindEnv(missing, found, dirs, now, chdir, run) ==
  [Env0 EXCEPT
     !.missing_dirs = IF missing THEN {<<"m">>} ELSE {},
     !.files = IF found THEN {<<"f">>} ELSE {},
     !.read_dirs = dirs,
     !.present = {<<".">>, <<"o", "d">>}
                   \cup (IF now.m THEN {<<"m">>} ELSE {})
                   \cup (IF now.f THEN {<<"f">>} ELSE {})
                   \cup (IF now.d # "removed" THEN {<<"d">>} ELSE {}),
     !.modified = (IF now.d = "newer" THEN {<<"d">>} ELSE {})
                    \cup (IF now.top THEN {<<".">>} ELSE {})
                    \cup (IF now.od THEN {<<"o", "d">>} ELSE {}),
     !.links = IF now.d \in {"link", "link newer", "link gone"} THEN {<<"d">>} ELSE {},
     !.target_modified = IF now.d = "link newer" THEN {<<"d">>} ELSE {},
     !.target_missing = IF now.d = "link gone" THEN {<<"d">>} ELSE {},
     !.chdir = chdir,
     !.parse_ok = run # "no parse",
     !.run_ok = run # "no run",
     !.output = IF run = "differs" THEN <<"2">> ELSE <<"1">>]

FindNow ==
  [m : BOOLEAN, f : BOOLEAN,
   d : {"same", "newer", "removed", "link", "link newer", "link gone"},
   top : BOOLEAN, od : BOOLEAN]

FindPool ==
  {ShellResult("Find", <<"c">>, <<"1">>, FindEnv(missing, found, dirs, now, chdir, run)) :
     missing \in BOOLEAN, found \in BOOLEAN,
     dirs \in {{}, {<<".">>}, {<<"d">>}, {<<"o", "d">>}},
     now \in {n \in FindNow : n.m \/ n.f \/ n.d = "same"},
     chdir \in {None, <<"o", "d">>},
     run \in {"same", "differs", "no parse", "no run"}}

\* The stamp check of one recorded find command
InitReplay ==
  /\ FLAGS \in FlagsPool
  /\ globs \in SeqsUpTo({[pat |-> <<"s", "*">>, result |-> <<>>]}, 1)
  /\ commands \in {<<sr>> : sr \in FindPool}
  /\ files = FilesBefore
  /\ needs_regen = "OkFalse"
  /\ glob_pc = "idle" /\ glob_i = 1
  /\ cmd_pc = "idle" /\ cmd_i = 1 /\ cmd_res = "OkFalse" /\ shell_runs = <<>>
  /\ stderr = <<>>
  /\ regen_pc = "step1"
  /\ regen_ret = "none"
  /\ IdleTree /\ IdleInner /\ IdleFind /\ IdleSym /\ IdleExp /\ IdleDep /\ IdleMk /\ IdleCmd /\ IdleRun

NextRegen ==
  \/ CheckStep1
  \/ GlobCheck
  \/ GlobLock
  \/ CmdCheck
  \/ CmdLock
  \/ CheckStep2Return

(***************************************************************************)
(* find.rs: the directory tree of the find emulator.                       *)
(*                                                                         *)
(* fs is the file system the emulator reads: one record per entry, entry 1 *)
(* the current directory.  nodes[n] is the DirentNode made for entry n;    *)
(* initialize_dir creates the nodes of a directory's children, and no one  *)
(* can reach a child before, so the model keeps them from the start.  A    *)
(* path is a byte string whose components are separated by "/".            *)
(***************************************************************************)
Entry(base, typ, parent, children, link, dest) ==
  [base |-> base, typ |-> typ, parent |-> parent, children |-> children,
   link |-> link, dest |-> dest]

DirE(base, parent, children) == Entry(base, "dir", parent, children, "", <<>>)
FileE(base, parent) == Entry(base, "file", parent, <<>>, "", <<>>)
\* link: "ok", or why the link cannot be used: "readlink" (read_link fails),
\* "notfound" (metadata: the target is missing), "eloop" (metadata: too many
\* levels of symbolic links), "absolute"
LinkE(base, parent, link, dest) == Entry(base, "symlink", parent, <<>>, link, dest)

\* d/{f, u -> ..}: a link back to the directory above
TreeUp ==
  << DirE(<<>>, 0, <<2>>), DirE(<<"d">>, 1, <<3, 4>>), FileE(<<"f">>, 2),
     LinkE(<<"u">>, 2, "ok", <<".", ".">>) >>
\* {f, l -> .}: a link to the directory that holds it
TreeSelf ==
  << DirE(<<>>, 0, <<2, 3>>), FileE(<<"f">>, 1), LinkE(<<"l">>, 1, "ok", <<".">>) >>
\* {a/{f}, l -> a, m -> l}: a chain of links, no loop
TreeChain ==
  << DirE(<<>>, 0, <<2, 3, 4>>), DirE(<<"a">>, 1, <<5>>),
     LinkE(<<"l">>, 1, "ok", <<"a">>), LinkE(<<"m">>, 1, "ok", <<"l">>),
     FileE(<<"f">>, 2) >>
\* links that cannot be followed: absolute, dangling, into the skipped .git,
\* and a link to itself
TreeBad ==
  << DirE(<<>>, 0, <<2, 3, 4, 5>>), LinkE(<<"x">>, 1, "absolute", <<"/", "e">>),
     LinkE(<<"y">>, 1, "notfound", <<"n">>),
     LinkE(<<"z">>, 1, "ok", <<".", "g", "i", "t">>),
     LinkE(<<"w">>, 1, "eloop", <<"w">>) >>
\* {a/{b -> ../c}, c/{a -> ../a}}: two directories linked to each other
TreeCross ==
  << DirE(<<>>, 0, <<2, 3>>), DirE(<<"a">>, 1, <<4>>), DirE(<<"c">>, 1, <<5>>),
     LinkE(<<"b">>, 2, "ok", <<".", ".", "/", "c">>),
     LinkE(<<"a">>, 3, "ok", <<".", ".", "/", "a">>) >>

TreePool == {TreeUp, TreeSelf, TreeChain, TreeBad, TreeCross}

NodeType(kind, to, err) == [kind |-> kind, to |-> to, err |-> err]
Unset == NodeType("unset", 0, "")
NoneRet == NodeType("None", 0, "")
SymlinkKinds == {"Symlink", "SymlinkError", "UnsupportedSymlink"}

\* The nodes as initialize_dir (and DirentNode::new for the root) makes them
NewNodes(tree) ==
  [n \in 1..Len(tree) |->
     IF tree[n].typ = "dir" THEN [inner |-> Unset, init_data |-> "Dir"]
     ELSE IF tree[n].typ = "symlink" THEN [inner |-> Unset, init_data |-> "Symlink"]
     ELSE [inner |-> NodeType("File", 0, ""), init_data |-> "None"]]

initialize_dir(n) == NodeType("Dir", 0, "")

\* The first child of n whose base is p, 0 when there is none
child_named(n, p) ==
  LET cs == fs[n].children IN
  IF \E i \in 1..Len(cs) : fs[cs[i]].base = p
  THEN cs[CHOOSE i \in 1..Len(cs) :
            fs[cs[i]].base = p /\ \A j \in 1..(i - 1) : fs[cs[j]].base # p]
  ELSE 0

RECURSIVE inner(_, _, _), find_dir(_, _, _)

\* initialize_symlink after read_link and the parent's upgrade, on what
\* find_dir answered for the destination
symlink_to(r) ==
  IF r.node = 0 THEN [st |-> r.st, val |-> NodeType("SymlinkError", 0, "Other")]
  ELSE [st |-> r.st, val |-> NodeType("Symlink", r.node, "")]

\* initialize_symlink: [st, val]
initialize_symlink(st, n) ==
  IF fs[n].link = "readlink" THEN [st |-> st, val |-> NodeType("SymlinkError", 0, "Other")]
  ELSE IF fs[n].link = "notfound" THEN [st |-> st, val |-> NodeType("SymlinkError", 0, "NotFound")]
  ELSE IF fs[n].link = "eloop" THEN [st |-> st, val |-> NodeType("SymlinkError", 0, "Other")]
  ELSE IF fs[n].link = "absolute" THEN [st |-> st, val |-> NodeType("UnsupportedSymlink", 0, "")]
  ELSE symlink_to(find_dir(st, fs[n].parent, fs[n].dest))

\* The closure of get_or_init: take init_data and initialize: [st, val]
init_closure(st, n) ==
  IF st[n].init_data = "None"
  THEN [st |-> st, val |-> NodeType("Error", 0, "")]
  ELSE IF st[n].init_data = "Dir"
  THEN [st |-> [st EXCEPT ![n].init_data = "None"], val |-> initialize_dir(n)]
  ELSE initialize_symlink([st EXCEPT ![n].init_data = "None"], n)

\* The test DirentNode::inner makes before get_or_init when the caller does
\* not follow links, on an initialized cell
not_followed_set(cell) == cell.kind \in SymlinkKinds

\* The same test on a cell that is not initialized, under the init_data lock
not_followed_unset(init_data) == init_data = "Symlink"

\* OnceLock::get_or_init with a single caller, on what the closure answered
get_or_init(c, n) == [st |-> [c.st EXCEPT ![n].inner = c.val], ret |-> c.val]

\* DirentNode::inner with a single caller: [st, ret]
inner(st, n, follows_symlinks) ==
  IF /\ ~follows_symlinks
     /\ IF st[n].inner # Unset THEN not_followed_set(st[n].inner)
        ELSE not_followed_unset(st[n].init_data)
  THEN [st |-> st, ret |-> NoneRet]
  ELSE IF st[n].inner # Unset THEN [st |-> st, ret |-> st[n].inner]
  ELSE get_or_init(init_closure(st, n), n)

\* The index of the first '/' of d, Len(d) + 1 if there is none
slash_or_end(d) == IF memchr("/", d) # 0 THEN memchr("/", d) ELSE Len(d) + 1

\* d up to its first '/', and what follows that '/'
first_component(d) == SubSeq(d, 1, slash_or_end(d) - 1)

rest_components(d) == SubSeq(d, slash_or_end(d) + 1, Len(d))

\* Whether d has no '/'
last_component(d) == slash_or_end(d) > Len(d)

\* find_dir on a directory, after its first component p was split off
find_dir_in(st, n, p, rest, last) ==
  IF p = <<>> \/ p = <<".">> THEN find_dir(st, n, rest)
  ELSE IF p = <<".", ".">>
    THEN IF fs[n].parent = 0 THEN [st |-> st, node |-> 0]
         ELSE find_dir(st, fs[n].parent, rest)
  ELSE IF child_named(n, p) = 0 THEN [st |-> st, node |-> 0]
  ELSE IF last THEN [st |-> st, node |-> child_named(n, p)]
  ELSE find_dir(st, child_named(n, p), rest)

\* find_dir on what inner() answered for the node
find_dir_on(r, n, d) ==
  IF r.ret.kind = "Dir"
  THEN IF d = <<>> \/ d = <<".">> THEN [st |-> r.st, node |-> n]
       ELSE IF d = <<".", ".">> THEN [st |-> r.st, node |-> fs[n].parent]
       ELSE find_dir_in(r.st, n, first_component(d), rest_components(d),
                        last_component(d))
  ELSE IF r.ret.kind = "Symlink" THEN find_dir(r.st, r.ret.to, d)
  ELSE [st |-> r.st, node |-> 0]

\* find_dir: [st, node], node = 0 for None
find_dir(st, n, d) == find_dir_on(inner(st, n, TRUE), n, d)

RECURSIVE is_directory(_, _)

\* is_directory on what inner() answered for the node
is_directory_on(r) ==
  IF r.ret.kind = "Dir" THEN [st |-> r.st, ret |-> TRUE]
  ELSE IF r.ret.kind = "Symlink" THEN is_directory(r.st, r.ret.to)
  ELSE [st |-> r.st, ret |-> FALSE]

\* is_directory: [st, ret]
is_directory(st, n) == is_directory_on(inner(st, n, TRUE))

(***************************************************************************)
(* find.rs: concurrent callers of DirentNode::inner on one node.           *)
(***************************************************************************)
Readers == 1..NumReaders

Pending == NodeType("pending", 0, "")

\* The current directory has been read; the readers read it or one of its
\* children
InitInner ==
  /\ fs \in TreePool
  /\ nodes = inner(NewNodes(fs), 1, TRUE).st
  /\ rd_node \in {1} \cup {fs[1].children[i] : i \in 1..Len(fs[1].children)}
  /\ once_running = 0
  /\ init_mu = 0
  /\ rd_pc = [r \in Readers |-> "idle"]
  /\ rd_follows = [r \in Readers |-> FALSE]
  /\ rd_val = [r \in Readers |-> Unset]
  /\ rd_ret = [r \in Readers |-> Pending]
  /\ rd_calls = [r \in Readers |-> 0]
  /\ init_runs = 0
  /\ FLAGS = DefaultFlags
  /\ IdleRegen /\ IdleFind /\ IdleSym /\ IdleExp /\ IdleDep /\ IdleMk /\ IdleCmd /\ IdleRun

\* inner(): the caller enters and, when it does not follow links, looks at
\* self.inner.get()
InnerStart(r) ==
  /\ UNCHANGED notInner
  /\ rd_pc[r] \in {"idle", "done"}
  /\ rd_calls[r] < MaxReads
  /\ rd_calls' = [rd_calls EXCEPT ![r] = @ + 1]
  /\ \E f \in BOOLEAN :
       /\ rd_follows' = [rd_follows EXCEPT ![r] = f]
       /\ IF f THEN /\ rd_pc' = [rd_pc EXCEPT ![r] = "get_or_init"]
                    /\ rd_ret' = [rd_ret EXCEPT ![r] = Pending]
          ELSE IF nodes[rd_node].inner = Unset
            THEN /\ rd_pc' = [rd_pc EXCEPT ![r] = "lock"]
                 /\ rd_ret' = [rd_ret EXCEPT ![r] = Pending]
          ELSE IF not_followed_set(nodes[rd_node].inner)
            THEN /\ rd_pc' = [rd_pc EXCEPT ![r] = "done"]
                 /\ rd_ret' = [rd_ret EXCEPT ![r] = NoneRet]
          ELSE /\ rd_pc' = [rd_pc EXCEPT ![r] = "get_or_init"]
               /\ rd_ret' = [rd_ret EXCEPT ![r] = Pending]
  /\ UNCHANGED <<nodes, rd_node, once_running, init_mu, rd_val, init_runs>>

\* inner(): the cell was not initialized; lock init_data, look at it, unlock
InnerLock(r) ==
  /\ UNCHANGED notInner
  /\ rd_pc[r] = "lock"
  /\ init_mu = 0
  /\ IF not_followed_unset(nodes[rd_node].init_data)
     THEN /\ rd_pc' = [rd_pc EXCEPT ![r] = "done"]
          /\ rd_ret' = [rd_ret EXCEPT ![r] = NoneRet]
     ELSE /\ rd_pc' = [rd_pc EXCEPT ![r] = "get_or_init"]
          /\ UNCHANGED rd_ret
  /\ UNCHANGED <<nodes, rd_node, once_running, init_mu, rd_follows,
                 rd_val, rd_calls, init_runs>>

\* A caller of get_or_init may enter only while no value is stored and no one
\* else is initializing
GetOrInitRacy(r) ==
  /\ UNCHANGED notInner
  /\ rd_pc[r] = "get_or_init"
  /\ IF nodes[rd_node].inner # Unset
     THEN /\ rd_pc' = [rd_pc EXCEPT ![r] = "done"]
          /\ rd_ret' = [rd_ret EXCEPT ![r] = nodes[rd_node].inner]
          /\ UNCHANGED once_running
     ELSE /\ rd_pc' = [rd_pc EXCEPT ![r] = "closure"]
          /\ once_running' = r
          /\ UNCHANGED rd_ret
  /\ UNCHANGED <<nodes, rd_node, init_mu, rd_follows, rd_val, rd_calls,
                 init_runs>>

\* OnceLock::get_or_init: return the stored value, or become the one caller
\* that runs the closure; the others wait until the value is stored
GetOrInit(r) ==
  /\ UNCHANGED notInner
  /\ rd_pc[r] = "get_or_init"
  /\ nodes[rd_node].inner # Unset \/ once_running = 0
  /\ IF nodes[rd_node].inner # Unset
     THEN /\ rd_pc' = [rd_pc EXCEPT ![r] = "done"]
          /\ rd_ret' = [rd_ret EXCEPT ![r] = nodes[rd_node].inner]
          /\ UNCHANGED once_running
     ELSE /\ rd_pc' = [rd_pc EXCEPT ![r] = "closure"]
          /\ once_running' = r
          /\ UNCHANGED rd_ret
  /\ UNCHANGED <<nodes, rd_node, init_mu, rd_follows, rd_val, rd_calls,
                 init_runs>>

\* The closure has run and answered c
ClosureRun(r, c) ==
  /\ nodes' = c.st
  /\ rd_val' = [rd_val EXCEPT ![r] = c.val]

\* The closure: lock init_data, take it and initialize; the guard lives to
\* the end of the closure
ClosureLock(r) ==
  /\ UNCHANGED notInner
  /\ rd_pc[r] = "closure"
  /\ init_mu = 0
  /\ init_mu' = r
  /\ ClosureRun(r, init_closure(nodes, rd_node))
  /\ init_runs' = init_runs + 1
  /\ rd_pc' = [rd_pc EXCEPT ![r] = "closure_end"]
  /\ UNCHANGED <<rd_node, once_running, rd_follows, rd_ret, rd_calls>>

\* The closure returns: the init_data guard is dropped
ClosureEnd(r) ==
  /\ UNCHANGED notInner
  /\ rd_pc[r] = "closure_end"
  /\ init_mu' = 0
  /\ rd_pc' = [rd_pc EXCEPT ![r] = "store"]
  /\ UNCHANGED <<nodes, rd_node, once_running, rd_follows, rd_val,
                 rd_ret, rd_calls, init_runs>>

\* get_or_init stores the closure's value and returns it
Store(r) ==
  /\ UNCHANGED notInner
  /\ rd_pc[r] = "store"
  /\ nodes' = [nodes EXCEPT ![rd_node].inner = rd_val[r]]
  /\ once_running' = 0
  /\ rd_pc' = [rd_pc EXCEPT ![r] = "done"]
  /\ rd_ret' = [rd_ret EXCEPT ![r] = rd_val[r]]
  /\ UNCHANGED <<rd_node, init_mu, rd_follows, rd_val, rd_calls, init_runs>>

\* What a caller inside inner() does next
ReaderStep(r) ==
  InnerLock(r) \/ GetOrInit(r) \/ ClosureLock(r) \/ ClosureEnd(r) \/ Store(r)

NextInner ==
  \/ \E r \in Readers : InnerStart(r)
  \/ \E r \in Readers : InnerLock(r)
  \/ \E r \in Readers : GetOrInit(r)
  \/ \E r \in Readers : ClosureLock(r)
  \/ \E r \in Readers : ClosureEnd(r)
  \/ \E r \in Readers : Store(r)

(***************************************************************************)
(* find.rs: handle_find and run_find.  One find command is handled at a    *)
(* time; the tree outlives the command.  Patterns are literal names or     *)
(* "*"; chdir and testdir are not given.                                   *)
(***************************************************************************)
I32_MAX == 2147483647
I32_MIN == 0 - I32_MAX - 1

\* Byte values of the model's alphabet
Ord(c) ==
  CASE c = " " -> 32 [] c = "*" -> 42 [] c = "." -> 46 [] c = "/" -> 47
    [] c = "a" -> 97 [] c = "b" -> 98 [] c = "c" -> 99 [] c = "d" -> 100
    [] c = "e" -> 101 [] c = "f" -> 102 [] c = "g" -> 103 [] c = "i" -> 105
    [] c = "l" -> 108 [] c = "m" -> 109 [] c = "n" -> 110 [] c = "t" -> 116
    [] c = "u" -> 117 [] c = "w" -> 119 [] c = "x" -> 120 [] c = "y" -> 121
    [] c = "z" -> 122

\* Ord::cmp on byte strings gives Less
bytes_less(a, b) ==
  LET m == IF Len(a) < Len(b) THEN Len(a) ELSE Len(b) IN
  IF \E i \in 1..m : a[i] # b[i]
  THEN LET i == CHOOSE i \in 1..m : a[i] # b[i] /\ \A j \in 1..(i - 1) : a[j] = b[j]
       IN Ord(a[i]) < Ord(b[i])
  ELSE Len(a) < Len(b)

basename(str) ==
  IF memrchr("/", str) = 0 \/ memrchr("/", str) = 1 THEN str
  ELSE SubSeq(str, memrchr("/", str) + 1, Len(str))

has_wildcard(name) == \E i \in 1..Len(name) : name[i] \in {"?", "*", "["}

\* fnmatch for a literal pattern or "*"; period = FNM_PERIOD
fnmatch(pat, name, period) ==
  IF pat = <<"*">> THEN ~(period /\ name # <<>> /\ name[1] = ".")
  ELSE pat = name

\* FindCond; NoCond is the None of an Option<FindCond>
NoCond == [t |-> "None"]
CondName(name) == [t |-> "Name", pat |-> name, has_wildcard |-> has_wildcard(name)]
CondTyp(typ) == [t |-> "Typ", typ |-> typ]
CondNot(c) == [t |-> "Not", a |-> c]
CondAnd(c1, c2) == [t |-> "And", a |-> c1, b |-> c2]
CondOr(c1, c2) == [t |-> "Or", a |-> c1, b |-> c2]

RECURSIVE is_true(_, _, _), countable(_), count(_)
is_true(cond, path, typ) ==
  CASE cond.t = "Name" -> fnmatch(cond.pat, basename(path), FALSE)
    [] cond.t = "Typ" -> typ = cond.typ
    [] cond.t = "Not" -> ~is_true(cond.a, path, typ)
    [] cond.t = "And" -> is_true(cond.a, path, typ) /\ is_true(cond.b, path, typ)
    [] cond.t = "Or" -> is_true(cond.a, path, typ) \/ is_true(cond.b, path, typ)

countable(cond) ==
  CASE cond.t = "Name" -> ~cond.has_wildcard
    [] cond.t = "Or" -> countable(cond.a) /\ countable(cond.b)
    [] OTHER -> FALSE

count(cond) ==
  CASE cond.t = "Name" -> 1
    [] cond.t = "Or" -> count(cond.a) + count(cond.b)
    [] OTHER -> 0

FindCommand(typ, finddirs, follows_symlink, print_cond, prune_cond, depth, mindepth) ==
  [typ |-> typ, finddirs |-> finddirs, follows_symlink |-> follows_symlink,
   print_cond |-> print_cond, prune_cond |-> prune_cond, depth |-> depth,
   mindepth |-> mindepth, redirect_to_devnull |-> FALSE,
   found_files |-> <<>>, read_dirs |-> {}]

\* find . | find -L . | find -L * -maxdepth 1 | find l m |
\* find -L . -name u -prune -o -print | findleaves.py --mindepth=1 . f
FindCommandPool ==
  { FindCommand("Find", << <<".">> >>, FALSE, NoCond, NoCond, I32_MAX, I32_MIN),
    FindCommand("Find", << <<".">> >>, TRUE, NoCond, NoCond, I32_MAX, I32_MIN),
    FindCommand("Find", << <<"*">> >>, TRUE, NoCond, NoCond, 1, I32_MIN),
    FindCommand("Find", << <<"l">>, <<"m">> >>, FALSE, NoCond, NoCond, I32_MAX, I32_MIN),
    FindCommand("Find", << <<".">> >>, TRUE, NoCond, CondName(<<"u">>), I32_MAX, I32_MIN),
    FindCommand("FindLeaves", << <<".">> >>, TRUE, CondName(<<"f">>), NoCond, I32_MAX, 1) }

print_if_necessary(c, path, typ, d, out) ==
  IF c.print_cond # NoCond /\ ~is_true(c.print_cond, path, typ) THEN out
  ELSE IF d < c.mindepth THEN out
  ELSE Append(out, path)

can_handle(str) ==
  /\ ~starts_with(str, <<"/">>)
  /\ ~starts_with(str, <<".", "r", "e", "p", "o">>)
  /\ ~starts_with(str, <<".", "g", "i", "t">>)

RECURSIVE find_nodes(_, _, _, _), find_nodes_children(_, _, _, _, _)

\* What find_nodes answers: [st, ok, res, rd]: the tree, the return value,
\* what was pushed on results and what was inserted into fc.read_dirs
FindNodes(st, ok, res, rd) == [st |-> st, ok |-> ok, res |-> res, rd |-> rd]

\* find_nodes on a directory, after the first component p was split off
find_nodes_dir(st, n, path1, d, p, rest, last) ==
  IF p = <<>> \/ p = <<".">>
  THEN IF last THEN FindNodes(st, TRUE, <<[path |-> path1 \o p, node |-> n]>>, {})
       ELSE find_nodes(st, n, path1 \o p, rest)
  ELSE IF p = <<".", ".">>
  THEN IF fs[n].parent = 0 THEN FindNodes(st, FALSE, <<>>, {})
       ELSE IF last
       THEN FindNodes(st, TRUE, <<[path |-> path1 \o p, node |-> fs[n].parent]>>, {})
       ELSE find_nodes(st, fs[n].parent, path1 \o p, rest)
  ELSE find_nodes_children(n, 1, path1, d,
         FindNodes(st, TRUE, <<>>, IF has_wildcard(p) THEN {path1} ELSE {}))

\* find_nodes on a link: the path is recorded when the target is a directory
find_nodes_mark(sub, is_dir, path) ==
  [sub EXCEPT !.rd = IF is_dir THEN @ \cup {path} ELSE @]

find_nodes_link(isd, to, path, d) ==
  find_nodes_mark(find_nodes(isd.st, to, path, d), isd.ret, path)

\* find_nodes on what inner() answered for the node
find_nodes_on(r, n, path, d) ==
  IF r.ret.kind = "Dir"
  THEN find_nodes_dir(r.st, n, IF path # <<>> THEN Append(path, "/") ELSE path, d,
                      first_component(d), rest_components(d), last_component(d))
  ELSE IF r.ret.kind = "Symlink"
  THEN find_nodes_link(is_directory(r.st, r.ret.to), r.ret.to, path, d)
  ELSE IF r.ret.kind = "UnsupportedSymlink" THEN FindNodes(r.st, FALSE, <<>>, {})
  ELSE FindNodes(r.st, TRUE, <<>>, {})

find_nodes(st, n, path, d) == find_nodes_on(inner(st, n, TRUE), n, path, d)

\* The loop body of find_nodes for a matching child that is not the last
\* component, on what find_nodes answered for the child
find_nodes_child(sub, n, i, path1, d, acc) ==
  IF ~sub.ok
  THEN FindNodes(sub.st, sub.ok, acc.res \o sub.res, acc.rd \cup sub.rd)
  ELSE find_nodes_children(n, i + 1, path1, d,
         FindNodes(sub.st, sub.ok, acc.res \o sub.res, acc.rd \cup sub.rd))

\* The loop body of find_nodes for the child c named name
find_nodes_match(n, i, path1, d, acc, c, name, p) ==
  IF ~(IF has_wildcard(p) THEN fnmatch(p, name, TRUE) ELSE p = name)
  THEN find_nodes_children(n, i + 1, path1, d, acc)
  ELSE IF last_component(d)
  THEN find_nodes_children(n, i + 1, path1, d,
         [acc EXCEPT !.res = Append(@, [path |-> path1 \o name, node |-> c])])
  ELSE find_nodes_child(find_nodes(acc.st, c, path1 \o name, rest_components(d)),
                        n, i, path1, d, acc)

\* The loop of find_nodes over the children of n, from the i-th on
find_nodes_children(n, i, path1, d, acc) ==
  IF i > Len(fs[n].children) THEN acc
  ELSE find_nodes_match(n, i, path1, d, acc, fs[n].children[i],
                        fs[fs[n].children[i]].base, first_component(d))

\* Whether the file system has the path although the emulator's tree has not:
\* only .git, which initialize_dir skips
path_exists(d) == d = <<".", "g", "i", "t">>

\* WordWriter: the results joined by spaces
RECURSIVE join_words(_)
join_words(words) ==
  IF words = <<>> THEN <<>>
  ELSE IF Len(words) = 1 THEN words[1]
  ELSE words[1] \o <<" ">> \o join_words(Tail(words))

Frame(node, d, path) ==
  [node |-> node, d |-> d, path |-> path, phase |-> "call", i |-> 1, orig_out_size |-> 0]

Top == stack[Len(stack)]

\* A tracker that never finds the node on the traversal path
tracker_blind(dirs, node) == None

\* ScopedReadDirTracker::new: the conflicting path, None if the node is new
tracker_conflicted(dirs, node) ==
  IF node \in DOMAIN dirs THEN dirs[node] ELSE None

tracker_insert(dirs, node, path) == (node :> path) @@ dirs

\* Drop for ScopedReadDirTracker
tracker_drop(dirs, node) == [k \in (DOMAIN dirs) \ {node} |-> dirs[k]]

\* path with "/" and the child's base pushed
child_path(path, base) ==
  (IF ends_with(path, <<"/">>) THEN path ELSE Append(path, "/")) \o base

InitFind ==
  /\ FLAGS \in {DefaultFlags, [DefaultFlags EXCEPT !.werror_find_emulator = TRUE]}
  /\ fs \in TreePool
  /\ nodes = NewNodes(fs)
  /\ find_pc = "idle" /\ find_count = 0 /\ find_i = 1 /\ fc = <<>>
  /\ bases = <<>> /\ stack = <<>> /\ cur_read_dirs = <<>> /\ results = <<>>
  /\ find_log = <<>> /\ find_ret = <<>>
  /\ IdleRegen /\ IdleInner /\ IdleSym /\ IdleExp /\ IdleDep /\ IdleMk /\ IdleCmd /\ IdleRun

\* handle_find up to the loop over fc.finddirs
HandleFind ==
  /\ UNCHANGED notFind
  /\ find_pc = "idle"
  /\ find_count < MaxFinds
  /\ find_count' = find_count + 1
  /\ fc' \in FindCommandPool
  /\ find_pc' = "run" /\ find_i' = 1
  /\ results' = <<>> /\ find_log' = <<>> /\ find_ret' = <<>>
  /\ UNCHANGED <<nodes, bases, stack, cur_read_dirs>>

\* handle_find returns: Ok(true) with the output, Ok(false) or Err
find_return(ret, out) == [ret |-> ret, out |-> out]

\* handle_find on one of fc.finddirs, on what find_nodes answered for it
FindDirNodes(finddir, fnr) ==
  /\ nodes' = fnr.st
  /\ fc' = [fc EXCEPT !.read_dirs = @ \cup fnr.rd]
  /\ IF ~fnr.ok \/ (fnr.res = <<>> /\ path_exists(finddir))
     THEN /\ find_pc' = "idle"
          /\ find_ret' = find_return("OkFalse", <<>>)
          /\ UNCHANGED <<find_i, bases, find_log>>
     ELSE IF fnr.res = <<>>
     THEN IF fc.redirect_to_devnull
          THEN /\ find_i' = find_i + 1
               /\ UNCHANGED <<find_pc, find_ret, bases, find_log>>
          ELSE IF FLAGS.werror_find_emulator
          THEN /\ find_pc' = "idle"
               /\ find_ret' = find_return("Err", <<>>)
               /\ find_log' = Append(find_log, "error: no such file")
               /\ UNCHANGED <<find_i, bases>>
          ELSE /\ find_i' = find_i + 1
               /\ find_log' = Append(find_log, "warning: no such file")
               /\ UNCHANGED <<find_pc, find_ret, bases>>
     ELSE /\ find_i' = find_i + 1
          /\ bases' = SortSeq(fnr.res, LAMBDA a, b : bytes_less(a.path, b.path))
          /\ UNCHANGED <<find_pc, find_ret, find_log>>

\* handle_find: the next of fc.finddirs, or the end of the loop
\* and the output
NextFindDir ==
  /\ UNCHANGED notFind
  /\ find_pc = "run" /\ stack = <<>> /\ bases = <<>>
  /\ IF find_i > Len(fc.finddirs)
     THEN /\ find_pc' = "idle"
          /\ find_ret' = find_return("OkTrue",
               join_words(IF fc.typ = "FindLeaves"
                          THEN SortSeq(results, bytes_less) ELSE results))
          /\ UNCHANGED <<nodes, find_i, fc, bases, find_log>>
     ELSE IF ~can_handle(fc.finddirs[find_i])
     THEN /\ find_pc' = "idle" /\ find_ret' = find_return("OkFalse", <<>>)
          /\ UNCHANGED <<nodes, find_i, fc, bases, find_log>>
     ELSE FindDirNodes(fc.finddirs[find_i],
                       find_nodes(nodes, 1, <<>>, fc.finddirs[find_i]))
  /\ UNCHANGED <<find_count, stack, cur_read_dirs, results>>

\* handle_find: run_find on the next base, with a new cur_read_dirs
NextBase ==
  /\ UNCHANGED notFind
  /\ find_pc = "run" /\ stack = <<>> /\ bases # <<>>
  /\ stack' = <<Frame(Head(bases).node, 0, Head(bases).path)>>
  /\ bases' = Tail(bases)
  /\ cur_read_dirs' = <<>>
  /\ UNCHANGED <<nodes, find_pc, find_count, find_i, fc, results, find_log, find_ret>>

\* run_find returned Ok(false) or Err: every caller up to handle_find returns
\* it, the trackers are dropped on the way
FindAbort(ret, msg) ==
  /\ find_pc' = "idle"
  /\ find_ret' = find_return(ret, <<>>)
  /\ stack' = <<>> /\ bases' = <<>> /\ cur_read_dirs' = <<>>
  /\ find_log' = IF msg = "" THEN find_log ELSE Append(find_log, msg)

\* find_warn_loc!: a warning, or an error under --werror_find_emulator; then
\* the caller returns Ok(true)
FindWarnReturn(msg) ==
  IF FLAGS.werror_find_emulator
  THEN FindAbort("Err", "error: " \o msg) /\ UNCHANGED <<fc, results>>
  ELSE /\ find_log' = Append(find_log, "warning: " \o msg)
       /\ stack' = SubSeq(stack, 1, Len(stack) - 1)
       /\ UNCHANGED <<find_pc, find_ret, bases, cur_read_dirs, fc, results>>

\* run_find returns Ok(true) to its caller
RunFindReturn(callers) ==
  /\ stack' = callers
  /\ UNCHANGED <<find_pc, find_ret, bases, cur_read_dirs, fc, find_log>>

\* run_find on a directory that is not on the traversal path, up to the loop
\* over its children; printed is what print_if_necessary leaves in the output
RunFindDir(f, callers, printed) ==
  /\ fc' = [fc EXCEPT !.read_dirs = @ \cup {f.path}]
  /\ UNCHANGED <<find_pc, find_ret, bases, find_log>>
  /\ IF fc.prune_cond # NoCond /\ is_true(fc.prune_cond, f.path, "Dir")
     THEN /\ results' = IF fc.typ # "FindLeaves"
                        THEN Append(results, f.path) ELSE results
          /\ stack' = callers
          /\ UNCHANGED cur_read_dirs
     ELSE IF f.d >= fc.depth
     THEN /\ results' = printed
          /\ stack' = callers
          /\ UNCHANGED cur_read_dirs
     ELSE /\ results' = printed
          /\ cur_read_dirs' = tracker_insert(cur_read_dirs, f.node, f.path)
          /\ stack' = Append(callers,
               [f EXCEPT !.phase = IF fc.typ = "FindLeaves" THEN "leaves" ELSE "loop",
                         !.i = 1,
                         !.orig_out_size = Len(printed)])

\* run_find on the node of frame f, on what inner() answered for it
RunFindOn(f, callers, r) ==
  /\ nodes' = r.st
  /\ CASE r.ret.kind = "File" ->
            /\ results' = print_if_necessary(fc, f.path, "Regular", f.d, results)
            /\ RunFindReturn(callers)
       [] r.ret.kind = "Dir" ->
            IF tracker_conflicted(cur_read_dirs, f.node) # None
            THEN FindWarnReturn("File system loop detected")
            ELSE RunFindDir(f, callers,
                            print_if_necessary(fc, f.path, "Dir", f.d, results))
       [] r.ret.kind = "Symlink" ->
            \* to.run_find with the same d and path, whose result is returned
            /\ stack' = Append(callers, [f EXCEPT !.node = r.ret.to])
            /\ UNCHANGED <<find_pc, find_ret, bases, cur_read_dirs, fc, results,
                           find_log>>
       [] r.ret.kind = "SymlinkError" ->
            IF r.ret.err = "NotFound"
            THEN /\ results' = print_if_necessary(fc, f.path, "Symlink", f.d, results)
                 /\ RunFindReturn(callers)
            ELSE IF fc.typ # "FindLeaves"
            THEN FindWarnReturn("symlink")
            ELSE RunFindReturn(callers) /\ UNCHANGED results
       [] r.ret.kind = "UnsupportedSymlink" ->
            FindAbort("OkFalse", "") /\ UNCHANGED <<fc, results>>
       [] r.ret.kind = "None" ->
            /\ results' = print_if_necessary(fc, f.path, "Symlink", f.d, results)
            /\ RunFindReturn(callers)
       [] OTHER -> RunFindReturn(callers) /\ UNCHANGED results

\* run_find on the node of the innermost frame, up to its loop over the
\* children
RunFindEnter ==
  /\ UNCHANGED notFind
  /\ find_pc = "run" /\ stack # <<>> /\ Top.phase = "call"
  /\ RunFindOn(Top, SubSeq(stack, 1, Len(stack) - 1),
               inner(nodes, Top.node, fc.follows_symlink))
  /\ UNCHANGED <<find_count, find_i>>

\* The end of a loop of run_find over the children of a directory
RunFindLoopEnd(f, callers) ==
  /\ UNCHANGED nodes
  /\ IF f.phase = "leaves" /\ f.orig_out_size = Len(results)
     THEN /\ stack' = Append(callers, [f EXCEPT !.phase = "dirs", !.i = 1])
          /\ UNCHANGED <<cur_read_dirs, fc>>
     ELSE /\ stack' = callers
          /\ cur_read_dirs' = tracker_drop(cur_read_dirs, f.node)
          /\ IF /\ f.phase = "leaves"
                /\ countable(fc.print_cond)
                /\ count(fc.print_cond) = Len(results) - f.orig_out_size
             THEN fc' = [fc EXCEPT
                    !.read_dirs = @ \ {f.path},
                    !.found_files = @ \o SubSeq(results, f.orig_out_size + 1,
                                                Len(results))]
             ELSE UNCHANGED fc

\* Whether the loop of phase visits a child: every child, the children that
\* are no directories, or the children that are
visits(phase, is_dir) ==
  \/ phase = "loop"
  \/ phase = "leaves" /\ ~is_dir
  \/ phase = "dirs" /\ is_dir

\* One iteration of a loop of run_find over the children: child c, isd is what
\* is_directory answered for it in the two loops of findleaves
RunFindChild(f, callers, c, isd) ==
  /\ visits(f.phase, isd.ret) => Len(stack) < MaxStack
  /\ nodes' = isd.st
  /\ stack' = IF visits(f.phase, isd.ret)
              THEN callers \o <<[f EXCEPT !.i = @ + 1],
                     Frame(c, f.d + 1, child_path(f.path, fs[c].base))>>
              ELSE Append(callers, [f EXCEPT !.i = @ + 1])
  /\ UNCHANGED <<cur_read_dirs, fc>>

\* run_find: one iteration of a loop over the children of a directory, or
\* the end of the loop
RunFindChildren ==
  /\ UNCHANGED notFind
  /\ find_pc = "run" /\ stack # <<>> /\ Top.phase \in {"loop", "leaves", "dirs"}
  /\ IF Top.i > Len(fs[Top.node].children)
     THEN RunFindLoopEnd(Top, SubSeq(stack, 1, Len(stack) - 1))
     ELSE RunFindChild(Top, SubSeq(stack, 1, Len(stack) - 1),
                       fs[Top.node].children[Top.i],
                       IF Top.phase = "loop" THEN [st |-> nodes, ret |-> FALSE]
                       ELSE is_directory(nodes, fs[Top.node].children[Top.i]))
  /\ UNCHANGED <<find_pc, find_count, find_i, bases, results, find_log, find_ret>>

NextFind ==
  \/ HandleFind
  \/ NextFindDir
  \/ NextBase
  \/ RunFindEnter
  \/ RunFindChildren

(***************************************************************************)
(* symtab.rs, eval.rs: global variables.  A Variable is held by value: no   *)
(* Var is bound to two symbols at once, and a Var that no symbol is bound   *)
(* to can only come back through the ScopedGlobalVar that saved it.  There  *)
(* is no rule-specific scope (current_scope is None).                       *)
(***************************************************************************)
Syms == {"X", "Y"}

KATI_READONLY_SYM == ".KATI_READONLY"

\* Option<Var>::None
NoVar == [origin |-> "None"]

Variable(origin, flavor, value, readonly) ==
  [origin |-> origin, flavor |-> flavor, value |-> value, readonly |-> readonly]

\* What set_global_var answers: the table, whether the variable was bound,
\* *readonly, and the error
SetResult(sd, bound, readonly, err) ==
  [sd |-> sd, bound |-> bound, readonly |-> readonly, err |-> err]

\* set_global_var that never looks at the readonly bit of the bound variable
set_global_var_unguarded(sd, sym, var, is_override) ==
  SetResult([sd EXCEPT ![sym] = var], TRUE, FALSE, "")

\* Symtab::set_global_var with readonly = Some(..)
set_global_var(sd, sym, var, is_override) ==
  IF sd[sym] # NoVar /\ sd[sym].readonly THEN SetResult(sd, FALSE, TRUE, "")
  ELSE IF /\ sd[sym] # NoVar
          /\ ~is_override
          /\ sd[sym].origin \in {"Override", "EnvironmentOverride"}
  THEN SetResult(sd, FALSE, FALSE, "")
  ELSE IF sd[sym] # NoVar /\ sd[sym].origin = "CommandLine" /\ var.origin = "File"
  THEN SetResult(sd, FALSE, FALSE, "")
  ELSE IF sd[sym] # NoVar /\ sd[sym].origin = "Automatic"
  THEN SetResult(sd, FALSE, FALSE, "overriding automatic variable is not implemented yet")
  ELSE SetResult([sd EXCEPT ![sym] = var], TRUE, FALSE, "")

\* The origin eval_rhs gives a new variable
rhs_origin(phase, is_override) ==
  IF phase = "bootstrap" THEN "Default"
  ELSE IF phase = "commandline" THEN "CommandLine"
  ELSE IF is_override THEN "Override"
  ELSE "File"

\* Variable::append_str / append_var with a literal: a space and the bytes
append_str(var, buf) == [var EXCEPT !.value = @ \o <<" ">> \o buf]

\* What eval_rhs answers: the table (+= appends to the bound variable in
\* place), the variable, needs_assign, and the error
RhsResult(sd, result, needs_assign, err) ==
  [sd |-> sd, result |-> result, needs_assign |-> needs_assign, err |-> err]

\* Evaluator::eval_rhs for a literal right-hand side
eval_rhs(sd, phase, lhs, rhs, op, is_override) ==
  CASE op = "ColonEq" ->
         RhsResult(sd, Variable(rhs_origin(phase, is_override), "Simple", rhs, FALSE),
                   TRUE, "")
    [] op = "Eq" ->
         RhsResult(sd, Variable(rhs_origin(phase, is_override), "Recursive", rhs, FALSE),
                   TRUE, "")
    [] op = "PlusEq" ->
         IF sd[lhs] # NoVar
         THEN IF sd[lhs].readonly
              THEN RhsResult(sd, sd[lhs], FALSE, "cannot assign to readonly variable")
              ELSE RhsResult([sd EXCEPT ![lhs] = append_str(@, rhs)],
                             append_str(sd[lhs], rhs), FALSE, "")
         ELSE RhsResult(sd, Variable(rhs_origin(phase, is_override), "Recursive", rhs,
                                     FALSE), TRUE, "")
    [] op = "QuestionEq" ->
         IF sd[lhs] # NoVar THEN RhsResult(sd, sd[lhs], FALSE, "")
         ELSE RhsResult(sd, Variable(rhs_origin(phase, is_override), "Recursive", rhs,
                                     FALSE), TRUE, "")

\* An AssignStmt
AssignStmt(lhs, rhs, op, is_override, is_final) ==
  [lhs |-> lhs, rhs |-> rhs, op |-> op, is_override |-> is_override,
   is_final |-> is_final]

\* What eval_assign answers: the table and the error
AssignResult(sd, err) == [sd |-> sd, err |-> err]

\* eval_assign on .KATI_READONLY := names, from the first name on
RECURSIVE eval_readonly(_, _)
eval_readonly(sd, names) ==
  IF names = <<>> THEN AssignResult(sd, "")
  ELSE IF sd[Head(names)] = NoVar THEN AssignResult(sd, "unknown variable")
  ELSE eval_readonly([sd EXCEPT ![Head(names)].readonly = TRUE], Tail(names))

\* eval_assign after set_global_var answered r for the variable var
eval_assigned(r, stmt, var) ==
  IF r.err # "" THEN AssignResult(r.sd, r.err)
  ELSE IF r.readonly THEN AssignResult(r.sd, "cannot assign to readonly variable")
  ELSE IF stmt.is_final /\ r.bound
  THEN AssignResult([r.sd EXCEPT ![stmt.lhs].readonly = TRUE], "")
  ELSE AssignResult(r.sd, "")

\* eval_assign after eval_rhs answered e
eval_assign_rhs(e, stmt) ==
  IF e.err # "" THEN AssignResult(e.sd, e.err)
  ELSE IF e.needs_assign
  THEN eval_assigned(set_global_var(e.sd, stmt.lhs, e.result, stmt.is_override),
                     stmt, e.result)
  ELSE IF stmt.is_final THEN AssignResult([e.sd EXCEPT ![stmt.lhs].readonly = TRUE], "")
  ELSE AssignResult(e.sd, "")

\* Evaluator::eval_assign
eval_assign(sd, phase, stmt) ==
  IF stmt.lhs = KATI_READONLY_SYM THEN eval_readonly(sd, stmt.rhs)
  ELSE eval_assign_rhs(
         eval_rhs(sd, phase, stmt.lhs, stmt.rhs, stmt.op, stmt.is_override), stmt)

\* The statements of a phase: the literal assigned names the phase; only a
\* makefile has override, final and .KATI_READONLY
Ops == {"ColonEq", "Eq", "PlusEq", "QuestionEq"}

RhsOf(phase) ==
  IF phase = "bootstrap" THEN <<"d">>
  ELSE IF phase = "commandline" THEN <<"c">>
  ELSE <<"f">>

StmtPool(phase) ==
  { AssignStmt(lhs, RhsOf(phase), op, FALSE, FALSE) : lhs \in Syms, op \in Ops }
  \cup (IF phase # "file" THEN {}
        ELSE { AssignStmt(lhs, RhsOf(phase), op, o, f) :
                 lhs \in Syms, op \in Ops, o \in BOOLEAN, f \in BOOLEAN }
             \cup { AssignStmt(KATI_READONLY_SYM, <<n>>, "ColonEq", FALSE, FALSE) :
                      n \in Syms })

\* Symtab::new, before the bootstrap makefile is evaluated
InitSym ==
  /\ symbol_data = [s \in Syms |-> NoVar]
  /\ sv_stack = <<>>
  /\ ev_phase = "bootstrap"
  /\ ev_error = ""
  /\ stmt_count = 0
  /\ FLAGS = DefaultFlags
  /\ IdleRegen /\ IdleTree /\ IdleInner /\ IdleFind /\ IdleExp /\ IdleDep /\ IdleMk /\ IdleCmd /\ IdleRun

\* The evaluator's state after eval_assign answered r
Assigned(r) ==
  /\ symbol_data' = r.sd
  /\ ev_error' = r.err

\* The assignment statement stmt is evaluated
EvalAssignStmt(stmt) ==
  /\ UNCHANGED notSym
  /\ ev_error = "" /\ stmt_count < MaxStmts
  /\ stmt_count' = stmt_count + 1
  /\ Assigned(eval_assign(symbol_data, ev_phase, stmt))
  /\ UNCHANGED <<sv_stack, ev_phase>>

\* One assignment statement of the phase is evaluated
EvalAssign == \E stmt \in StmtPool(ev_phase) : EvalAssignStmt(stmt)

\* in_command_line
InCommandLine ==
  /\ UNCHANGED notSym
  /\ ev_error = "" /\ ev_phase = "bootstrap" /\ sv_stack = <<>>
  /\ ev_phase' = "commandline"
  /\ UNCHANGED <<symbol_data, sv_stack, ev_error, stmt_count>>

\* in_toplevel_makefile
InToplevelMakefile ==
  /\ UNCHANGED notSym
  /\ ev_error = "" /\ ev_phase = "commandline" /\ sv_stack = <<>>
  /\ ev_phase' = "file"
  /\ UNCHANGED <<symbol_data, sv_stack, ev_error, stmt_count>>

\* ScopedGlobalVar::new for the loop variable of foreach or an argument of
\* call: sym is bound to a new automatic variable
ScopedGlobalVarNew(sym) ==
  /\ UNCHANGED notSym
  /\ ev_error = "" /\ Len(sv_stack) < MaxScoped
  /\ sv_stack' = Append(sv_stack, [sym |-> sym, orig |-> symbol_data[sym]])
  /\ symbol_data' = [symbol_data EXCEPT ![sym] =
                       Variable("Automatic", "Simple", <<"t">>, FALSE)]
  /\ UNCHANGED <<ev_phase, ev_error, stmt_count>>

\* Drop for the innermost ScopedGlobalVar, also while an error is returned
ScopedGlobalVarDrop ==
  /\ UNCHANGED notSym
  /\ sv_stack # <<>>
  /\ symbol_data' = [symbol_data EXCEPT ![sv_stack[Len(sv_stack)].sym] =
                       sv_stack[Len(sv_stack)].orig]
  /\ sv_stack' = SubSeq(sv_stack, 1, Len(sv_stack) - 1)
  /\ UNCHANGED <<ev_phase, ev_error, stmt_count>>

\* foreach binds its loop variable, call binds an argument
ScopedNew == \E sym \in Syms : ScopedGlobalVarNew(sym)

NextSym ==
  \/ EvalAssign
  \/ InCommandLine
  \/ InToplevelMakefile
  \/ ScopedNew
  \/ ScopedGlobalVarDrop

(***************************************************************************)
(* strutil.rs, expr.rs, func.rs: the expansion of a value.  A call of eval  *)
(* that has not returned is an item of work; what it writes goes to the     *)
(* innermost buffer.  The name, the pattern and the substitution of a       *)
(* $(name:pat=subst) and the name of a $(call name) hold no reference, and  *)
(* $(call name) has no further argument.                                    *)
(***************************************************************************)
\* The index of the first space of s, Len(s) + 1 if there is none
word_end(s) == IF memchr(" ", s) # 0 THEN memchr(" ", s) ELSE Len(s) + 1

\* word_scanner: the words of s
RECURSIVE word_scanner(_)
word_scanner(s) ==
  IF s = <<>> THEN <<>>
  ELSE IF s[1] = " " THEN word_scanner(Tail(s))
  ELSE <<SubSeq(s, 1, word_end(s) - 1)>>
         \o word_scanner(SubSeq(s, word_end(s) + 1, Len(s)))

RECURSIVE trim_left_space(_), trim_right_space(_)
trim_left_space(s) ==
  IF s # <<>> /\ s[1] \in {" ", "\t"} THEN trim_left_space(Tail(s)) ELSE s

trim_right_space(s) ==
  IF s # <<>> /\ s[Len(s)] \in {" ", "\t"}
  THEN trim_right_space(SubSeq(s, 1, Len(s) - 1))
  ELSE s

trim_space(s) == trim_right_space(trim_left_space(s))

trim_suffix(s, suffix) ==
  IF ends_with(s, suffix) THEN SubSeq(s, 1, Len(s) - Len(suffix)) ELSE s

\* A slice whose end is before its start
Panic == <<"panic">>

\* Pattern::append_subst
append_subst(pat, s, subst) ==
  IF percent_index(pat) = 0 THEN (IF s = pat THEN subst ELSE s)
  ELSE IF match_impl(pat, s, percent_index(pat))
  THEN IF memchr("%", subst) # 0
       THEN IF percent_index(pat) + Len(s) + 1 - Len(pat) < percent_index(pat)
            THEN Panic
            ELSE SubSeq(subst, 1, memchr("%", subst) - 1)
                   \o SubSeq(s, percent_index(pat),
                             percent_index(pat) + Len(s) - Len(pat))
                   \o SubSeq(subst, memchr("%", subst) + 1, Len(subst))
       ELSE subst
  ELSE s

\* Pattern::append_subst_ref
append_subst_ref(pat, s, subst) ==
  IF percent_index(pat) # 0 /\ memchr("%", subst) # 0 THEN append_subst(pat, s, subst)
  ELSE trim_suffix(s, pat) \o subst

\* The loop of Value::eval for VarSubst over the words of value
RECURSIVE subst_words(_, _, _)
subst_words(pat, subst, toks) ==
  IF toks = <<>> THEN <<>>
  ELSE <<append_subst_ref(pat, Head(toks), subst)>>
         \o subst_words(pat, subst, Tail(toks))

\* Value
Literal(lit) == [t |-> "Literal", lit |-> lit]
List(vec) == [t |-> "List", vec |-> vec]
SymRef(sym) == [t |-> "SymRef", sym |-> sym]
VarRef(name) == [t |-> "VarRef", name |-> name]
VarSubst(name, pat, subst) ==
  [t |-> "VarSubst", name |-> name, pat |-> pat, subst |-> subst]
Func(fi, args) == [t |-> "Func", fi |-> fi, args |-> args]

\* eval_to_buf of a value that holds no reference
RECURSIVE eval_literal(_), eval_literals(_)
eval_literal(v) == IF v.t = "Literal" THEN v.lit ELSE eval_literals(v.vec)

eval_literals(vec) ==
  IF vec = <<>> THEN <<>> ELSE eval_literal(Head(vec)) \o eval_literals(Tail(vec))

\* The symbols of the makefiles
SymX == <<"X">>
SymY == <<"Y">>
SymN == <<"N">>
ExpSyms == {SymX, SymY, SymN}

\* NAME = value and NAME := bytes
Recursive(v) == Variable("File", "Recursive", v, FALSE)
Simple(bytes) == Variable("File", "Simple", bytes, FALSE)

Makefile(x, y, n) == [sym \in ExpSyms |-> IF sym = SymX THEN x ELSE IF sym = SymY THEN y ELSE n]

\* X = $(X) | X = a $(Y), Y = $(X) | X = $(X:%=%) | X = $(call X) |
\* X = $(Y:%.c=%.o), Y := a.c b.c | X = $($(N)), N := Y, Y := v |
\* X = $($(N)), N := X | X = $(call Y), Y = f
MakefilePool ==
  { Makefile(Recursive(SymRef(SymX)), NoVar, NoVar),
    Makefile(Recursive(List(<<Literal(<<"a", " ">>), SymRef(SymY)>>)),
             Recursive(SymRef(SymX)), NoVar),
    Makefile(Recursive(VarSubst(Literal(SymX), Literal(<<"%">>), Literal(<<"%">>))),
             NoVar, NoVar),
    Makefile(Recursive(Func("call", <<Literal(SymX)>>)), NoVar, NoVar),
    Makefile(Recursive(VarSubst(Literal(SymY), Literal(<<"%", ".", "c">>),
                                Literal(<<"%", ".", "o">>))),
             Simple(<<"a", ".", "c", " ", "b", ".", "c">>), NoVar),
    Makefile(Recursive(VarRef(SymRef(SymN))), Simple(<<"v">>), Simple(SymY)),
    Makefile(Recursive(VarRef(SymRef(SymN))), NoVar, Simple(SymX)),
    Makefile(Recursive(Func("call", <<Literal(<<" ", "Y">>)>>)),
             Recursive(Literal(<<"f">>)), NoVar) }

\* $(X) | a $(Y) | $($(N)) | $(X)$(X) | $(Y:%=%.x) $(call Y)
ExprPool ==
  { SymRef(SymX), List(<<Literal(<<"a", " ">>), SymRef(SymY)>>),
    VarRef(SymRef(SymN)), List(<<SymRef(SymX), SymRef(SymX)>>),
    List(<<VarSubst(Literal(SymY), Literal(<<"%">>), Literal(<<"%", ".", "x">>)),
           Literal(<<" ">>), Func("call", <<Literal(SymY)>>)>>) }

\* A call of eval, and what a call does after the call it made returns
Item(k, v, sym, pat, subst) == [k |-> k, v |-> v, sym |-> sym, pat |-> pat, subst |-> subst]
EvalItem(v) == Item("eval", v, <<>>, <<>>, <<>>)
AfterItem(k, sym) == Item(k, Literal(<<>>), sym, <<>>, <<>>)
SubstItem(sym, pat, subst) == Item("subst_value", Literal(<<>>), sym, pat, subst)

TopItem == work[Len(work)]
Callers == SubSeq(work, 1, Len(work) - 1)

\* out.put_slice on the innermost buffer
put_slice(b, lit) == [b EXCEPT ![Len(b)] = @ \o lit]

\* The innermost buffer is returned to the caller
pop_buf(b) == SubSeq(b, 1, Len(b) - 1)

\* lookup_var in an evaluator that finds no variable
lookup_var_none(sym) == NoVar

\* Evaluator::lookup_var without a rule-specific scope
lookup_var(sym) == IF sym \in DOMAIN symbol_data THEN symbol_data[sym] ELSE NoVar

\* The variables whose value is being expanded, outermost first
RECURSIVE expanding(_)
expanding(w) ==
  IF w = <<>> THEN <<>>
  ELSE IF Head(w).k \in {"complete", "subst_value", "call_return"}
  THEN <<Head(w).sym>> \o expanding(Tail(w))
  ELSE expanding(Tail(w))

InitExp ==
  /\ symbol_data \in MakefilePool
  /\ sv_stack = <<>> /\ ev_phase = "file" /\ ev_error = "" /\ stmt_count = 0
  /\ exp_pc = "idle" /\ work = <<>> /\ bufs = <<>> /\ symbols_for_eval = {}
  /\ eval_depth = 0
  /\ FLAGS = DefaultFlags
  /\ IdleRegen /\ IdleTree /\ IdleInner /\ IdleFind /\ IdleDep /\ IdleMk /\ IdleCmd /\ IdleRun

\* eval_to_buf is called on an expression of the makefile
EvalExpr ==
  /\ UNCHANGED notExp
  /\ exp_pc = "idle"
  /\ exp_pc' = "running"
  /\ \E e \in ExprPool : work' = <<EvalItem(e)>>
  /\ bufs' = << <<>> >>
  /\ UNCHANGED <<ev_error, symbols_for_eval, eval_depth>>

\* The outermost eval has returned
EvalReturn ==
  /\ UNCHANGED notExp
  /\ exp_pc = "running" /\ work = <<>>
  /\ exp_pc' = "done"
  /\ UNCHANGED <<ev_error, work, bufs, symbols_for_eval, eval_depth>>

\* An error is returned by every call up to the outermost
EvalError(msg) ==
  /\ ev_error' = msg
  /\ exp_pc' = "done"
  /\ work' = <<>>
  /\ UNCHANGED <<bufs, symbols_for_eval, eval_depth>>

\* The innermost call is eval of a value of type t
Evaluating(t) ==
  /\ exp_pc = "running" /\ work # <<>>
  /\ TopItem.k = "eval" /\ TopItem.v.t = t

\* The innermost call returns to a caller waiting in k
Returning(k) ==
  /\ exp_pc = "running" /\ work # <<>>
  /\ TopItem.k = k

\* Variable::eval of var, after which the caller goes on with after
VariableEval(var, b, after) ==
  IF var.flavor = "Simple"
  THEN /\ bufs' = put_slice(b, var.value)
       /\ work' = Append(Callers, after)
  ELSE /\ Len(work) < MaxWork
       /\ bufs' = b
       /\ work' = Callers \o <<after, EvalItem(var.value)>>

\* Value::eval for Literal
EvalLiteral ==
  /\ UNCHANGED notExp
  /\ Evaluating("Literal")
  /\ bufs' = put_slice(bufs, TopItem.v.lit)
  /\ work' = Callers
  /\ UNCHANGED <<exp_pc, ev_error, symbols_for_eval, eval_depth>>

\* The calls of eval for the values of vec, the first innermost
RECURSIVE eval_items(_)
eval_items(vec) ==
  IF vec = <<>> THEN <<>> ELSE eval_items(Tail(vec)) \o <<EvalItem(Head(vec))>>

\* Value::eval for List
EvalList ==
  /\ UNCHANGED notExp
  /\ Evaluating("List")
  /\ Len(work) + Len(TopItem.v.vec) <= MaxWork + 1
  /\ work' = Callers \o eval_items(TopItem.v.vec)
  /\ UNCHANGED <<exp_pc, ev_error, bufs, symbols_for_eval, eval_depth>>

\* Value::eval for SymRef and VarRef from lookup_var_for_eval on
EvalRef(sym, b) ==
  IF lookup_var(sym) = NoVar
  THEN /\ work' = Callers /\ bufs' = b
       /\ UNCHANGED <<exp_pc, ev_error, symbols_for_eval>>
  ELSE IF sym \in symbols_for_eval
  THEN EvalError("Recursive variable references itself (eventually)")
       /\ UNCHANGED bufs
  ELSE /\ symbols_for_eval' = symbols_for_eval \cup {sym}
       /\ VariableEval(lookup_var(sym), b, AfterItem("complete", sym))
       /\ UNCHANGED <<exp_pc, ev_error>>

\* Value::eval for SymRef
EvalSymRef ==
  /\ UNCHANGED notExp
  /\ Evaluating("SymRef")
  /\ EvalRef(TopItem.v.sym, bufs)
  /\ UNCHANGED eval_depth

\* var_eval_complete that leaves the symbol in the set
VarEvalComplete_kept ==
  /\ UNCHANGED notExp
  /\ Returning("complete")
  /\ work' = Callers
  /\ UNCHANGED <<exp_pc, ev_error, bufs, symbols_for_eval, eval_depth>>

\* Value::eval for SymRef and VarRef: var_eval_complete
VarEvalComplete ==
  /\ UNCHANGED notExp
  /\ Returning("complete")
  /\ symbols_for_eval' = symbols_for_eval \ {TopItem.sym}
  /\ work' = Callers
  /\ UNCHANGED <<exp_pc, ev_error, bufs, eval_depth>>

\* Value::eval for VarRef: the name is evaluated to a buffer
EvalVarRef ==
  /\ UNCHANGED notExp
  /\ Evaluating("VarRef")
  /\ Len(work) < MaxWork
  /\ eval_depth' = eval_depth + 1
  /\ bufs' = Append(bufs, <<>>)
  /\ work' = Callers \o <<AfterItem("varref_name", <<>>), EvalItem(TopItem.v.name)>>
  /\ UNCHANGED <<exp_pc, ev_error, symbols_for_eval>>

\* Value::eval for VarRef: the name is interned and looked up
VarRefName ==
  /\ UNCHANGED notExp
  /\ Returning("varref_name")
  /\ eval_depth' = eval_depth - 1
  /\ EvalRef(bufs[Len(bufs)], pop_buf(bufs))

\* Value::eval for VarSubst up to the evaluation of the variable
EvalVarSubst ==
  /\ UNCHANGED notExp
  /\ Evaluating("VarSubst")
  /\ IF lookup_var(eval_literal(TopItem.v.name)) = NoVar
     THEN work' = Callers /\ UNCHANGED bufs
     ELSE VariableEval(lookup_var(eval_literal(TopItem.v.name)), Append(bufs, <<>>),
                       SubstItem(eval_literal(TopItem.v.name),
                                 eval_literal(TopItem.v.pat),
                                 eval_literal(TopItem.v.subst)))
  /\ UNCHANGED <<exp_pc, ev_error, symbols_for_eval, eval_depth>>

\* Value::eval for VarSubst: the words of the value are substituted
SubstValue ==
  /\ UNCHANGED notExp
  /\ Returning("subst_value")
  /\ bufs' = put_slice(pop_buf(bufs),
               join_words(subst_words(TopItem.pat, TopItem.subst,
                                      word_scanner(bufs[Len(bufs)]))))
  /\ work' = Callers
  /\ UNCHANGED <<exp_pc, ev_error, symbols_for_eval, eval_depth>>

\* Value::eval for Func with call_func: the function is looked up and
\* evaluated
EvalCall ==
  /\ UNCHANGED notExp
  /\ Evaluating("Func") /\ TopItem.v.fi = "call"
  /\ IF lookup_var(trim_space(eval_literal(TopItem.v.args[1]))) = NoVar
     THEN work' = Callers /\ UNCHANGED bufs
     ELSE VariableEval(lookup_var(trim_space(eval_literal(TopItem.v.args[1]))), bufs,
                       AfterItem("call_return",
                                 trim_space(eval_literal(TopItem.v.args[1]))))
  /\ UNCHANGED <<exp_pc, ev_error, symbols_for_eval, eval_depth>>

\* call_func returns
CallReturn ==
  /\ UNCHANGED notExp
  /\ Returning("call_return")
  /\ work' = Callers
  /\ UNCHANGED <<exp_pc, ev_error, bufs, symbols_for_eval, eval_depth>>

NextExp ==
  \/ EvalExpr
  \/ EvalReturn
  \/ EvalLiteral
  \/ EvalList
  \/ EvalSymRef
  \/ VarEvalComplete
  \/ EvalVarRef
  \/ VarRefName
  \/ EvalVarSubst
  \/ SubstValue
  \/ EvalCall
  \/ CallReturn

(***************************************************************************)
(* eval.rs, var.rs: assignment statements whose right-hand side is a value  *)
(* tree.  eval_assign evaluates the right-hand side of := and of += on a    *)
(* simple variable with the calls of eval above; the statement is the       *)
(* outermost item of work while they run.                                   *)
(***************************************************************************)
\* Variable::append_var with the old tree on the right
append_var_swapped(var, v) == [var EXCEPT !.value = List(<<v, Literal(<<" ">>), @>>)]

\* Variable::append_var on a recursive variable
append_var(var, v) == [var EXCEPT !.value = List(<<@, Literal(<<" ">>), v>>)]

\* Variable::immediate_eval
immediate_eval(var) == var.flavor = "Simple"

\* eval_rhs evaluates the right-hand side of stmt to a buffer
evaluates_rhs(sd, stmt) ==
  \/ stmt.op = "ColonEq"
  \/ /\ stmt.op = "PlusEq"
     /\ sd[stmt.lhs] # NoVar /\ ~sd[stmt.lhs].readonly
     /\ immediate_eval(sd[stmt.lhs])

\* Evaluator::eval_rhs where the right-hand side is kept as a tree
eval_rhs_tree(sd, phase, lhs, rhs, op, is_override) ==
  IF op = "PlusEq" /\ sd[lhs] # NoVar /\ ~sd[lhs].readonly
  THEN RhsResult([sd EXCEPT ![lhs] = append_var(@, rhs)], append_var(sd[lhs], rhs),
                 FALSE, "")
  ELSE eval_rhs(sd, phase, lhs, rhs, op, is_override)

\* The statement whose right-hand side is being evaluated
AssignItem(stmt) == [k |-> "assign", stmt |-> stmt]

\* b | $(X) | $(Y)
RhsPool == { Literal(<<"b">>), SymRef(SymX), SymRef(SymY) }

AssignPool ==
  { AssignStmt(lhs, rhs, op, FALSE, FALSE) :
      lhs \in {SymX, SymY}, rhs \in RhsPool, op \in Ops }

\* nothing | X = $(X) | X := a, Y := b | X = a, Y := b
AssignInitPool ==
  { Makefile(NoVar, NoVar, NoVar),
    Makefile(Recursive(SymRef(SymX)), NoVar, NoVar),
    Makefile(Simple(<<"a">>), Simple(<<"b">>), NoVar),
    Makefile(Recursive(Literal(<<"a">>)), Simple(<<"b">>), NoVar) }

InitAssign ==
  /\ symbol_data \in AssignInitPool
  /\ sv_stack = <<>> /\ ev_phase = "file" /\ ev_error = "" /\ stmt_count = 0
  /\ exp_pc = "idle" /\ work = <<>> /\ bufs = <<>> /\ symbols_for_eval = {}
  /\ eval_depth = 0
  /\ FLAGS = DefaultFlags
  /\ IdleRegen /\ IdleTree /\ IdleInner /\ IdleFind /\ IdleDep /\ IdleMk /\ IdleCmd /\ IdleRun

\* eval_assign up to the evaluation of the right-hand side, and to its end
\* when eval_rhs evaluates nothing
EvalAssignTree(stmt) ==
  /\ UNCHANGED notAssign
  /\ exp_pc = "idle" /\ ev_error = "" /\ stmt_count < MaxAssigns
  /\ stmt_count' = stmt_count + 1
  /\ IF evaluates_rhs(symbol_data, stmt)
     THEN /\ exp_pc' = "running"
          /\ work' = <<AssignItem(stmt), EvalItem(stmt.rhs)>>
          /\ bufs' = << <<>> >>
          /\ UNCHANGED <<symbol_data, ev_error>>
     ELSE /\ Assigned(eval_assign_rhs(
                 eval_rhs_tree(symbol_data, ev_phase, stmt.lhs, stmt.rhs, stmt.op,
                               stmt.is_override), stmt))
          /\ UNCHANGED <<exp_pc, work, bufs>>
  /\ UNCHANGED <<sv_stack, ev_phase, symbols_for_eval, eval_depth>>

\* One assignment statement of the makefile is evaluated
EvalAssignValue == \E stmt \in AssignPool : EvalAssignTree(stmt)

\* eval_assign from the return of eval_to_buf on: := binds a simple variable
\* to the buffer, += appends the buffer to the simple variable
AssignReturn ==
  /\ UNCHANGED notAssign
  /\ Returning("assign")
  /\ Assigned(eval_assign(symbol_data, ev_phase,
                          [TopItem.stmt EXCEPT !.rhs = bufs[1]]))
  /\ exp_pc' = "idle" /\ work' = <<>> /\ bufs' = <<>>
  /\ UNCHANGED <<sv_stack, ev_phase, stmt_count, symbols_for_eval, eval_depth>>

NextAssign ==
  \/ EvalAssignValue
  \/ AssignReturn
  \/ EvalLiteral
  \/ EvalList
  \/ EvalSymRef
  \/ VarEvalComplete

(***************************************************************************)
(* var.rs, eval.rs, func.rs: the source text of a variable.  A recursive   *)
(* variable holds the tree v and the bytes orig; the right-hand sides of    *)
(* the statements are literals, whose source text is their bytes.           *)
(***************************************************************************)
\* Variable::new_recursive
new_recursive(v, origin, orig) ==
  [origin |-> origin, flavor |-> "Recursive", value |-> v, readonly |-> FALSE,
   orig |-> orig]

\* Variable::string for a simple and for a recursive variable
string(var) == IF var.flavor = "Simple" THEN var.value ELSE var.orig

\* value_func: the bytes written for $(value var_name)
value_func(sd, var_name) == IF sd[var_name] = NoVar THEN <<>> ELSE string(sd[var_name])

\* Evaluator::eval_rhs, the source text orig_rhs of the right-hand side with it
eval_rhs_orig(sd, phase, lhs, rhs_v, orig_rhs, op, is_override) ==
  CASE op = "ColonEq" ->
         RhsResult(sd, Variable(rhs_origin(phase, is_override), "Simple",
                                eval_literal(rhs_v), FALSE), TRUE, "")
    [] op = "Eq" ->
         RhsResult(sd, new_recursive(rhs_v, rhs_origin(phase, is_override), orig_rhs),
                   TRUE, "")
    [] op = "PlusEq" ->
         IF sd[lhs] # NoVar
         THEN IF sd[lhs].readonly
              THEN RhsResult(sd, sd[lhs], FALSE, "cannot assign to readonly variable")
              ELSE IF immediate_eval(sd[lhs])
              THEN RhsResult([sd EXCEPT ![lhs] = append_str(@, eval_literal(rhs_v))],
                             append_str(sd[lhs], eval_literal(rhs_v)), FALSE, "")
              ELSE RhsResult([sd EXCEPT ![lhs] = append_var(@, rhs_v)],
                             append_var(sd[lhs], rhs_v), FALSE, "")
         ELSE RhsResult(sd, new_recursive(rhs_v, rhs_origin(phase, is_override), orig_rhs),
                        TRUE, "")
    [] op = "QuestionEq" ->
         IF sd[lhs] # NoVar THEN RhsResult(sd, sd[lhs], FALSE, "")
         ELSE RhsResult(sd, new_recursive(rhs_v, rhs_origin(phase, is_override), orig_rhs),
                        TRUE, "")

\* NAME op a | NAME op b
ValueStmtPool ==
  { [lhs |-> lhs, rhs |-> Literal(text), orig_rhs |-> text, op |-> op,
     is_override |-> FALSE, is_final |-> FALSE] :
      lhs \in {SymX, SymY}, text \in {<<"a">>, <<"b">>}, op \in Ops }

InitValue ==
  /\ symbol_data = Makefile(NoVar, NoVar, NoVar)
  /\ sv_stack = <<>> /\ ev_phase = "file" /\ ev_error = "" /\ stmt_count = 0
  /\ exp_pc = "idle" /\ work = <<>> /\ bufs = <<>> /\ symbols_for_eval = {}
  /\ eval_depth = 0
  /\ FLAGS = DefaultFlags
  /\ IdleRegen /\ IdleTree /\ IdleInner /\ IdleFind /\ IdleDep /\ IdleMk /\ IdleCmd /\ IdleRun

\* eval_assign on one statement of the makefile
ValueAssign ==
  /\ UNCHANGED notAssign
  /\ exp_pc = "idle" /\ ev_error = "" /\ stmt_count < MaxAssigns
  /\ stmt_count' = stmt_count + 1
  /\ \E stmt \in ValueStmtPool :
       Assigned(eval_assign_rhs(
         eval_rhs_orig(symbol_data, ev_phase, stmt.lhs, stmt.rhs, stmt.orig_rhs,
                       stmt.op, stmt.is_override), stmt))
  /\ UNCHANGED <<exp_pc, work, bufs, sv_stack, ev_phase, symbols_for_eval, eval_depth>>

\* $(value NAME) is expanded after the statements
ValueCall ==
  /\ UNCHANGED notAssign
  /\ exp_pc = "idle" /\ ev_error = "" /\ stmt_count > 0
  /\ \E sym \in {SymX, SymY} :
       /\ work' = <<[k |-> "value", sym |-> sym]>>
       /\ bufs' = <<value_func(symbol_data, sym)>>
  /\ exp_pc' = "done"
  /\ UNCHANGED <<symbol_data, sv_stack, ev_phase, ev_error, stmt_count, symbols_for_eval,
                 eval_depth>>

NextValue == ValueAssign \/ ValueCall

(***************************************************************************)
(* dep.rs: the dependency planner.                                         *)
(*                                                                         *)
(* A Symbol is its byte string.  An Arc<Mutex<DepNode>> is the index of    *)
(* the node in dep_nodes, in allocation order; an Arc<Mutex<RuleMerger>>   *)
(* is the key of the merger in rules.  In the makefiles of the model every  *)
(* target-specific variable is .KATI_IMPLICIT_OUTPUTS or .KATI_VALIDATIONS, *)
(* a rule for .SUFFIXES has no prerequisite, and the flags about suffix     *)
(* rules and implicit rules, the warning flags of build_plan and            *)
(* --gen_all_targets are not set.                                           *)
(***************************************************************************)
\* A single-colon rule that is not the copy populate_suffix_rule makes
Rule(outputs, output_patterns, inputs, order_only_inputs, cmds) ==
  [outputs |-> outputs, output_patterns |-> output_patterns, inputs |-> inputs,
   order_only_inputs |-> order_only_inputs, cmds |-> cmds,
   is_double_colon |-> FALSE, is_suffix_rule |-> FALSE]

\* target:: ...
DoubleColon(r) == [r EXCEPT !.is_double_colon = TRUE]

\* Option<Arc<Rule>>::None
NoRule == [outputs |-> "None"]

is_special_target(output) ==
  starts_with(output, <<".">>) /\ ~starts_with(Tail(output), <<".">>)

\* The suffixes of a suffix rule .in.out
input_suffix(output) == SubSeq(Tail(output), 1, memchr(".", Tail(output)) - 1)

output_suffix(output) ==
  SubSeq(Tail(output), memchr(".", Tail(output)) + 1, Len(Tail(output)))

is_suffix_rule(output) ==
  /\ is_special_target(output)
  /\ memchr(".", Tail(output)) # 0
  /\ memchr(".", output_suffix(output)) = 0

\* HashMap
insert(map, k, v) == (k :> v) @@ map

entry_or_insert(map, k, v) == IF k \in DOMAIN map THEN map ELSE insert(map, k, v)

\* entry(k).or_default() of a map of vectors
entry_or_default(map, k) == IF k \in DOMAIN map THEN map[k] ELSE <<>>

\* Vec::reverse
reverse(v) == [i \in 1..Len(v) |-> v[Len(v) + 1 - i]]

\* RuleMerger::new; primary_rule is the index of the primary rule in rules
RuleMerger ==
  [rules |-> <<>>, implicit_outputs |-> <<>>, validations |-> <<>>,
   primary_rule |-> 0, parent_sym |-> None, is_double_colon |-> FALSE]

\* What add_rule answers: the merger, the error, the warnings
AddResult(m, err, warn) == [m |-> m, err |-> err, warn |-> warn]

\* add_rule without the test of : against ::
add_rule_unchecked(m, output, r) ==
  AddResult([m EXCEPT !.rules = Append(@, r),
                      !.primary_rule = IF @ = 0 /\ r.cmds # <<>>
                                       THEN Len(m.rules) + 1 ELSE @],
            "", <<>>)

\* add_rule where the old commands are never overridden
add_rule_keep_old(m, output, r) ==
  IF m.rules # <<>> /\ m.is_double_colon # r.is_double_colon
  THEN AddResult(m, "*** target file has both : and :: entries.", <<>>)
  ELSE AddResult([m EXCEPT !.rules = Append(@, r),
                           !.primary_rule = IF @ = 0 /\ r.cmds # <<>>
                                            THEN Len(m.rules) + 1 ELSE @,
                           !.is_double_colon = IF m.rules = <<>>
                                               THEN r.is_double_colon ELSE @],
                 "", <<>>)

\* RuleMerger::add_rule
add_rule(m, output, r) ==
  IF m.rules # <<>> /\ m.is_double_colon # r.is_double_colon
  THEN AddResult(m, "*** target file has both : and :: entries.", <<>>)
  ELSE IF /\ m.primary_rule # 0 /\ r.cmds # <<>>
          /\ ~is_suffix_rule(output) /\ ~r.is_double_colon
  THEN IF FLAGS.werror_overriding_commands
       THEN AddResult(m, "*** overriding commands for target", <<>>)
       ELSE AddResult([m EXCEPT !.rules = Append(@, r),
                                !.primary_rule = Len(m.rules) + 1],
                      "",
                      <<"warning: overriding commands for target",
                        "warning: ignoring old commands for target">>)
  ELSE AddResult([m EXCEPT !.rules = Append(@, r),
                           !.primary_rule = IF @ = 0 /\ r.cmds # <<>>
                                            THEN Len(m.rules) + 1 ELSE @,
                           !.is_double_colon = IF m.rules = <<>>
                                               THEN r.is_double_colon ELSE @],
                 "", <<>>)

\* A DepBuilder under construction: [rules, implicit_rules, suffix_rules,
\* first_rule], with the error that ends the construction and the warnings
DepBuilder0 ==
  [rules |-> <<>>, implicit_rules |-> <<>>, suffix_rules |-> <<>>,
   first_rule |-> None, err |-> "", warn |-> <<>>]

populate_suffix_rule(db, rule, output) ==
  IF ~is_suffix_rule(output) THEN db
  ELSE [db EXCEPT !.suffix_rules =
          insert(@, output_suffix(output),
                 Append(entry_or_default(@, output_suffix(output)),
                        [rule EXCEPT !.inputs = <<input_suffix(output)>>,
                                     !.is_suffix_rule = TRUE]))]

\* populate_explicit_rule for one output, a being what add_rule answered
explicit_rule_added(db, rule, output, a) ==
  IF a.err # "" THEN [db EXCEPT !.err = a.err]
  ELSE populate_suffix_rule(
         [db EXCEPT !.first_rule = IF @ = None /\ ~is_special_target(output)
                                   THEN output ELSE @,
                    !.rules = insert(@, output, a.m),
                    !.warn = @ \o a.warn],
         rule, output)

RECURSIVE populate_explicit_rule(_, _, _)
populate_explicit_rule(db, rule, i) ==
  IF db.err # "" \/ i > Len(rule.outputs) THEN db
  ELSE populate_explicit_rule(
         explicit_rule_added(
           db, rule, rule.outputs[i],
           add_rule(entry_or_insert(db.rules, rule.outputs[i],
                                    RuleMerger)[rule.outputs[i]],
                    rule.outputs[i], rule)),
         rule, i + 1)

IgnorableInputs ==
  { <<"R", "C", "S", "/", "%", ",", "v">>, <<"R", "C", "S", "/", "%">>,
    <<"%", ",", "v">>, <<"s", ".", "%">>,
    <<"S", "C", "C", "S", "/", "s", ".", "%">> }

is_ignorable_implicit_rule(rule) ==
  /\ Len(rule.inputs) = 1
  /\ rule.order_only_inputs = <<>>
  /\ rule.cmds = <<>>
  /\ rule.inputs[1] \in IgnorableInputs

\* RuleTrie::add keeps the pattern; the node it is stored at is recomputed
\* by RuleTrie_get
RECURSIVE populate_implicit_rule(_, _, _)
populate_implicit_rule(db, rule, i) ==
  IF i > Len(rule.output_patterns) THEN db
  ELSE populate_implicit_rule(
         IF rule.output_patterns[i] # <<"%">> \/ ~is_ignorable_implicit_rule(rule)
         THEN [db EXCEPT !.implicit_rules =
                 Append(@, [name |-> rule.output_patterns[i], rule |-> rule])]
         ELSE db,
         rule, i + 1)

\* RuleMerger::set_implicit_output on the merger of output: the error, ""
\* if there is none
set_implicit_output(rm, output, p) ==
  IF rm[p].primary_rule = 0 THEN "*** implicit output on phony target"
  ELSE IF output \in DOMAIN rm /\ rm[output].parent_sym # None
  THEN "*** implicit output was already defined"
  ELSE IF output \in DOMAIN rm /\ rm[output].primary_rule # 0
  THEN "*** implicit output may not have commands"
  ELSE ""

\* The words of .KATI_IMPLICIT_OUTPUTS of symbol: set_implicit_output on the
\* word's merger, add_implicit_output on symbol's
RECURSIVE set_implicit_outputs(_, _, _, _)
set_implicit_outputs(db, symbol, outs, i) ==
  IF db.err # "" \/ i > Len(outs) THEN db
  ELSE set_implicit_outputs(
         IF set_implicit_output(db.rules, outs[i], symbol) # ""
         THEN [db EXCEPT !.err = set_implicit_output(db.rules, outs[i], symbol)]
         ELSE [db EXCEPT !.rules =
                 [entry_or_insert(@, outs[i], RuleMerger) EXCEPT
                    ![outs[i]].parent_sym = symbol,
                    ![symbol].implicit_outputs = Append(@, outs[i])]],
         symbol, outs, i + 1)

\* The second loop of populate_rules, over the symbols that have rule
\* variables: rv[i] = [symbol, implicit_outputs, validations]
RECURSIVE populate_rule_vars(_, _, _)
populate_rule_vars(db, rv, i) ==
  IF db.err # "" \/ i > Len(rv) THEN db
  ELSE IF rv[i].symbol \notin DOMAIN db.rules THEN populate_rule_vars(db, rv, i + 1)
  ELSE populate_rule_vars(
         [set_implicit_outputs(db, rv[i].symbol, rv[i].implicit_outputs, 1) EXCEPT
            !.rules[rv[i].symbol].validations = @ \o rv[i].validations],
         rv, i + 1)

RECURSIVE populate_rules_from(_, _, _)
populate_rules_from(db, ev_rules, i) ==
  IF db.err # "" \/ i > Len(ev_rules) THEN db
  ELSE populate_rules_from(
         IF ev_rules[i].outputs = <<>> THEN populate_implicit_rule(db, ev_rules[i], 1)
         ELSE populate_explicit_rule(db, ev_rules[i], 1),
         ev_rules, i + 1)

\* populate_rules: the loop over the rules, the reversal of the suffix
\* rules, the loop over the rule variables
suffix_rules_reversed(db) ==
  [db EXCEPT !.suffix_rules = [k \in DOMAIN @ |-> reverse(@[k])]]

populate_rules(ev_rules, rule_vars) ==
  populate_rule_vars(
    suffix_rules_reversed(populate_rules_from(DepBuilder0, ev_rules, 1)),
    rule_vars, 1)

get_rule_inputs(rm, s) ==
  IF s \notin DOMAIN rm THEN {}
  ELSE UNION {{rm[s].rules[i].inputs[j] : j \in 1..Len(rm[s].rules[i].inputs)} :
                i \in 1..Len(rm[s].rules)}

\* handle_special_targets: .PHONY
handle_special_targets(rm) == get_rule_inputs(rm, <<".", "P", "H", "O", "N", "Y">>)

\* handle_special_targets: .SUFFIXES without prerequisites
handle_suffixes(rm, sr) ==
  IF /\ <<".", "S", "U", "F", "F", "I", "X", "E", "S">> \in DOMAIN rm
     /\ get_rule_inputs(rm, <<".", "S", "U", "F", "F", "I", "X", "E", "S">>) = {}
  THEN <<>> ELSE sr

exists(target) ==
  target \in DOMAIN rules \/ target \in phony \/ target \in src_files

\* The depth of the trie node RuleTrie::add stores a pattern at, and the
\* suffix it stores there
trie_depth(name) ==
  IF percent_index(name) = 0 THEN Len(name) ELSE percent_index(name) - 1

trie_suffix(name) == SubSeq(name, trie_depth(name) + 1, Len(name))

\* Whether RuleTrie::get, d bytes down name, returns the entry
trie_entry_at(ent, name, d) ==
  /\ trie_depth(ent.name) = d
  /\ SubSeq(name, 1, d) = SubSeq(ent.name, 1, d)
  /\ \/ trie_suffix(ent.name) = <<>> /\ Len(name) = d
     \/ /\ trie_suffix(ent.name) # <<>>
        /\ ends_with(SubSeq(name, d + 1, Len(name)), Tail(trie_suffix(ent.name)))

\* RuleTrie::get that answers the entries in the order of their declaration,
\* whatever the depth they are stored at
RuleTrie_get_declared(trie, name, d) ==
  SelectSeq(trie, LAMBDA ent : \E k \in d..Len(name) : trie_entry_at(ent, name, k))

RECURSIVE RuleTrie_get(_, _, _)
RuleTrie_get(trie, name, d) ==
  IF d > Len(name) THEN <<>>
  ELSE SelectSeq(trie, LAMBDA ent : trie_entry_at(ent, name, d))
         \o RuleTrie_get(trie, name, d + 1)

\* can_pick_implicit_rule: the index of the first output pattern that
\* matches output and whose inputs all exist, 0 if there is none
pattern_ok(rule, output, k) ==
  /\ matches(rule.output_patterns[k], output)
  /\ \A i \in 1..Len(rule.inputs) :
       exists(append_subst(rule.output_patterns[k], output, rule.inputs[i]))

matched_pattern(rule, output) ==
  IF \E k \in 1..Len(rule.output_patterns) : pattern_ok(rule, output, k)
  THEN CHOOSE k \in 1..Len(rule.output_patterns) :
         /\ pattern_ok(rule, output, k)
         /\ \A j \in 1..(k - 1) : ~pattern_ok(rule, output, j)
  ELSE 0

\* can_pick_implicit_rule: "mark all other output patterns as used"
RECURSIVE mark_used(_, _, _, _, _, _)
mark_used(d, rule, matched, output, n, k) ==
  IF k > Len(rule.output_patterns) THEN d
  ELSE mark_used(
         IF rule.output_patterns[k] = matched THEN d
         ELSE insert(d, append_subst(matched, output, rule.output_patterns[k]), n),
         rule, matched, output, n, k + 1)

\* can_pick_implicit_rule on the map d: [done, rule]
can_pick_implicit_rule(d, rule, output, n) ==
  IF matched_pattern(rule, output) = 0 THEN [done |-> d, rule |-> NoRule]
  ELSE IF Len(rule.output_patterns) > 1
  THEN [done |-> mark_used(d, rule, rule.output_patterns[matched_pattern(rule, output)],
                           output, n, 1),
        rule |-> [rule EXCEPT !.output_patterns =
                    <<rule.output_patterns[matched_pattern(rule, output)]>>]]
  ELSE [done |-> d, rule |-> rule]

lookup_rule_merger(o) == IF o \in DOMAIN rules THEN o ELSE None

\* DepNode::new
DepNode(output, is_phony) ==
  [output |-> output, cmds |-> <<>>, deps |-> <<>>, order_onlys |-> <<>>,
   validations |-> <<>>, has_rule |-> FALSE, is_default_target |-> FALSE,
   is_phony |-> is_phony, implicit_outputs |-> <<>>, actual_inputs |-> <<>>,
   actual_order_only_inputs |-> <<>>, actual_validations |-> <<>>,
   output_pattern |-> None]

\* strutil.rs: get_ext (None when there is no dot) and strip_ext
get_ext(str) ==
  IF memrchr(".", str) = 0 THEN None ELSE SubSeq(str, memrchr(".", str), Len(str))

strip_ext(str) ==
  IF memrchr(".", str) = 0 THEN str
  ELSE IF memrchr("/", str) # 0 /\ memrchr(".", str) < memrchr("/", str) THEN str
  ELSE SubSeq(str, 1, memrchr(".", str) - 1)

replace_suffix(str, newsuf) == strip_ext(str) \o <<".">> \o newsuf

\* pick_rule's loop over the suffix rules found, from the i-th on: the
\* first whose input exists, NoRule if there is none
RECURSIVE first_suffix_rule(_, _, _)
first_suffix_rule(found, output, i) ==
  IF i > Len(found) THEN NoRule
  ELSE IF exists(replace_suffix(output, found[i].inputs[1])) THEN found[i]
  ELSE first_suffix_rule(found, output, i + 1)

\* pick_rule that looks for no suffix rule
pick_suffix_rule_none(output) == NoRule

\* pick_rule after the loop over the implicit rules: the suffix rule
pick_suffix_rule(output) ==
  IF get_ext(output) = None THEN NoRule
  ELSE IF Tail(get_ext(output)) \notin DOMAIN suffix_rules THEN NoRule
  ELSE first_suffix_rule(suffix_rules[Tail(get_ext(output))], output, 1)

apply_output_pattern(r, output, inputs) ==
  IF r.is_suffix_rule
  THEN [i \in 1..Len(inputs) |-> replace_suffix(output, inputs[i])]
  ELSE IF r.output_patterns = <<>> THEN inputs
  ELSE [i \in 1..Len(inputs) |-> append_subst(r.output_patterns[1], output, inputs[i])]

\* fill_dep_node_from_rule where no rule adds its commands
fill_dep_node_from_rule_no_cmds(m, output, r, n) ==
  [n EXCEPT
     !.actual_inputs = @ \o apply_output_pattern(r, output, r.inputs),
     !.actual_order_only_inputs =
        @ \o apply_output_pattern(r, output, r.order_only_inputs),
     !.output_pattern = IF r.output_patterns # <<>> THEN r.output_patterns[1] ELSE @]

fill_dep_node_from_rule(m, output, r, n) ==
  [n EXCEPT
     !.cmds = IF m.is_double_colon THEN @ \o r.cmds ELSE @,
     !.actual_inputs = @ \o apply_output_pattern(r, output, r.inputs),
     !.actual_order_only_inputs =
        @ \o apply_output_pattern(r, output, r.order_only_inputs),
     !.output_pattern = IF r.output_patterns # <<>> THEN r.output_patterns[1] ELSE @]

\* fill_dep_node: the primary rule or else the pattern rule
fill_primary(m, output, pattern_rule, n) ==
  IF m.primary_rule # 0
  THEN [fill_dep_node_from_rule(m, output, m.rules[m.primary_rule], n)
          EXCEPT !.cmds = m.rules[m.primary_rule].cmds]
  ELSE IF pattern_rule # NoRule
  THEN [fill_dep_node_from_rule(m, output, pattern_rule, n)
          EXCEPT !.cmds = pattern_rule.cmds]
  ELSE n

\* fill_dep_node: the loop over the rules rs, but the one at index skip
RECURSIVE fill_rules(_, _, _, _, _, _)
fill_rules(m, output, rs, skip, n, i) ==
  IF i > Len(rs) THEN n
  ELSE fill_rules(m, output, rs, skip,
                  IF i = skip THEN n ELSE fill_dep_node_from_rule(m, output, rs[i], n),
                  i + 1)

\* fill_dep_node: the loop over the implicit outputs
RECURSIVE fill_implicit_outputs(_, _, _, _, _)
fill_implicit_outputs(m, output, outs, n, i) ==
  IF i > Len(outs) THEN n
  ELSE fill_implicit_outputs(
         m, output, outs,
         fill_rules(m, output, rules[outs[i]].rules, 0,
                    [n EXCEPT !.implicit_outputs = Append(@, outs[i])], 1),
         i + 1)

fill_dep_node(m, output, pattern_rule, n) ==
  [fill_implicit_outputs(
     m, output, m.implicit_outputs,
     fill_rules(m, output, m.rules, m.primary_rule,
                fill_primary(m, output, pattern_rule, n), 1),
     1)
     EXCEPT !.actual_validations = @ \o m.validations]

\* picked_rule_info.merger.unwrap_or_else(RuleMerger::new)
merger_or_new(p) == IF p.merger # None THEN rules[p.merger] ELSE RuleMerger

\* self.done.get(&output): the node, 0 for None
done_get_miss(d, output) == 0

done_get(d, output) == IF output \in DOMAIN d THEN d[output] ELSE 0

\* build_plan's loop over the implicit outputs of the node
RECURSIVE insert_all(_, _, _, _)
insert_all(d, outs, n, i) ==
  IF i > Len(outs) THEN d ELSE insert_all(insert(d, outs[i], n), outs, n, i + 1)

\* The makefiles of the model
SymA == <<"a">>
SymB == <<"b">>
SymC == <<"c">>
SymV == <<"v">>
SymAll == <<"a", "l", "l">>
SymXa == <<"x", ".", "a">>
SymXb == <<"x", ".", "b">>
SymXc == <<"x", ".", "c">>
SymXo == <<"x", ".", "o">>
SymPhony == <<".", "P", "H", "O", "N", "Y">>
SymD == <<"d">>
SymCO == <<".", "c", ".", "o">>
SymSuffixes == <<".", "S", "U", "F", "F", "I", "X", "E", "S">>
PatO == <<"%", ".", "o">>
PatC == <<"%", ".", "c">>

Cmd == <<"cmd">>
One == <<"echo one">>
Two == <<"echo two">>
Three == <<"echo three">>

RuleVars(symbol, implicit_outputs, validations) ==
  [symbol |-> symbol, implicit_outputs |-> implicit_outputs,
   validations |-> validations]

Plan(ev_rules, rule_vars, fls) ==
  [rules |-> ev_rules, rule_vars |-> rule_vars, files |-> fls]

PlanPool ==
  { \* .PHONY: a
    Plan(<<Rule(<<SymPhony>>, <<>>, <<SymA>>, <<>>, <<>>)>>, <<>>, {}),
    \* all: a b ; a: c ; b: c ; c:
    Plan(<<Rule(<<SymAll>>, <<>>, <<SymA, SymB>>, <<>>, Cmd),
           Rule(<<SymA>>, <<>>, <<SymC>>, <<>>, Cmd),
           Rule(<<SymB>>, <<>>, <<SymC>>, <<>>, Cmd),
           Rule(<<SymC>>, <<>>, <<>>, <<>>, Cmd)>>, <<>>, {}),
    \* a: b ; b: a
    Plan(<<Rule(<<SymA>>, <<>>, <<SymB>>, <<>>, Cmd),
           Rule(<<SymB>>, <<>>, <<SymA>>, <<>>, Cmd)>>, <<>>, {}),
    \* a: a
    Plan(<<Rule(<<SymA>>, <<>>, <<SymA>>, <<>>, <<>>)>>, <<>>, {}),
    \* a: b ; b: c ; c: a b
    Plan(<<Rule(<<SymA>>, <<>>, <<SymB>>, <<>>, Cmd),
           Rule(<<SymB>>, <<>>, <<SymC>>, <<>>, Cmd),
           Rule(<<SymC>>, <<>>, <<SymA, SymB>>, <<>>, Cmd)>>, <<>>, {}),
    \* all: x.a x.b ; x.a: (with commands) ; %.a %.b:
    Plan(<<Rule(<<SymAll>>, <<>>, <<SymXa, SymXb>>, <<>>, <<>>),
           Rule(<<SymXa>>, <<>>, <<>>, <<>>, Cmd),
           Rule(<<>>, <<<<"%", ".", "a">>, <<"%", ".", "b">>>>, <<>>, <<>>, Cmd)>>,
         <<>>, {}),
    \* all: x.a x.b ; %.a %.b:
    Plan(<<Rule(<<SymAll>>, <<>>, <<SymXa, SymXb>>, <<>>, <<>>),
           Rule(<<>>, <<<<"%", ".", "a">>, <<"%", ".", "b">>>>, <<>>, <<>>, Cmd)>>,
         <<>>, {}),
    \* .PHONY: all ; all: a | b ; all: .KATI_VALIDATIONS := v ; v: all
    Plan(<<Rule(<<SymPhony>>, <<>>, <<SymAll>>, <<>>, <<>>),
           Rule(<<SymAll>>, <<>>, <<SymA>>, <<SymB>>, Cmd),
           Rule(<<SymV>>, <<>>, <<SymAll>>, <<>>, Cmd)>>,
         <<RuleVars(SymAll, <<>>, <<SymV>>)>>, {SymA}),
    \* all: x.o ; %.o: %.c ; x.o: | a, with the file x.c
    Plan(<<Rule(<<SymAll>>, <<>>, <<SymXo>>, <<>>, Cmd),
           Rule(<<>>, <<<<"%", ".", "o">>>>, <<<<"%", ".", "c">>>>, <<>>, Cmd),
           Rule(<<SymXo>>, <<>>, <<>>, <<SymA>>, <<>>)>>, <<>>, {SymXc}),
    \* all: b a ; a: c ; a: .KATI_IMPLICIT_OUTPUTS := b ; b: v
    Plan(<<Rule(<<SymAll>>, <<>>, <<SymB, SymA>>, <<>>, Cmd),
           Rule(<<SymA>>, <<>>, <<SymC>>, <<>>, Cmd),
           Rule(<<SymB>>, <<>>, <<SymV>>, <<>>, <<>>)>>,
         <<RuleVars(SymA, <<SymB>>, <<>>)>>, {SymC}),
    \* a: b ; echo one ; a: c ; echo two
    Plan(<<Rule(<<SymA>>, <<>>, <<SymB>>, <<>>, One),
           Rule(<<SymA>>, <<>>, <<SymC>>, <<>>, Two)>>, <<>>, {}),
    \* all: x.o .c.o ; .c.o: ; echo one ; .c.o: ; echo two, with the file x.c
    Plan(<<Rule(<<SymAll>>, <<>>, <<SymXo, SymCO>>, <<>>, <<>>),
           Rule(<<SymCO>>, <<>>, <<>>, <<>>, One),
           Rule(<<SymCO>>, <<>>, <<>>, <<>>, Two)>>, <<>>, {SymXc}),
    \* all: x.o ; %.o: %.c ; echo one ; x.o: a ; echo two, with the file x.c
    Plan(<<Rule(<<SymAll>>, <<>>, <<SymXo>>, <<>>, <<>>),
           Rule(<<>>, <<PatO>>, <<PatC>>, <<>>, One),
           Rule(<<SymXo>>, <<>>, <<SymA>>, <<>>, Two)>>, <<>>, {SymXc}),
    \* all: x.o ; .c.o: ; echo one ; x.o: a, with the file x.c
    Plan(<<Rule(<<SymAll>>, <<>>, <<SymXo>>, <<>>, <<>>),
           Rule(<<SymCO>>, <<>>, <<>>, <<>>, One),
           Rule(<<SymXo>>, <<>>, <<SymA>>, <<>>, <<>>)>>, <<>>, {SymXc}),
    \* all: x.o ; .c.o: ; echo one ; x.o: a ; echo two, with the file x.c
    Plan(<<Rule(<<SymAll>>, <<>>, <<SymXo>>, <<>>, <<>>),
           Rule(<<SymCO>>, <<>>, <<>>, <<>>, One),
           Rule(<<SymXo>>, <<>>, <<SymA>>, <<>>, Two)>>, <<>>, {SymXc}),
    \* all: x.o ; %.o: %.c ; echo one ; %.o: %.c ; echo two ;
    \* %.o: %.b ; echo three, with the file x.c
    Plan(<<Rule(<<SymAll>>, <<>>, <<SymXo>>, <<>>, <<>>),
           Rule(<<>>, <<PatO>>, <<PatC>>, <<>>, One),
           Rule(<<>>, <<PatO>>, <<PatC>>, <<>>, Two),
           Rule(<<>>, <<PatO>>, <<<<"%", ".", "b">>>>, <<>>, Three)>>, <<>>, {SymXc}),
    \* all: x.o ; x%: ; echo one ; %.o: ; echo two
    Plan(<<Rule(<<SymAll>>, <<>>, <<SymXo>>, <<>>, <<>>),
           Rule(<<>>, <<<<"x", "%">>>>, <<>>, <<>>, One),
           Rule(<<>>, <<PatO>>, <<>>, <<>>, Two)>>, <<>>, {}),
    \* all: x.o ; %.o: %.c ; echo one ; .c.o: ; echo two, with the file x.c
    Plan(<<Rule(<<SymAll>>, <<>>, <<SymXo>>, <<>>, <<>>),
           Rule(<<>>, <<PatO>>, <<PatC>>, <<>>, One),
           Rule(<<SymCO>>, <<>>, <<>>, <<>>, Two)>>, <<>>, {SymXc}),
    \* all: x.o ; .c.o: ; echo one ; .SUFFIXES:, with the file x.c
    Plan(<<Rule(<<SymAll>>, <<>>, <<SymXo>>, <<>>, <<>>),
           Rule(<<SymCO>>, <<>>, <<>>, <<>>, One),
           Rule(<<SymSuffixes>>, <<>>, <<>>, <<>>, <<>>)>>, <<>>, {SymXc}),
    \* all: d x.a ; d: ; cmd ; d: .KATI_IMPLICIT_OUTPUTS := x.b ; %.a %.b: ; cmd
    Plan(<<Rule(<<SymAll>>, <<>>, <<SymD, SymXa>>, <<>>, <<>>),
           Rule(<<SymD>>, <<>>, <<>>, <<>>, Cmd),
           Rule(<<>>, <<<<"%", ".", "a">>, <<"%", ".", "b">>>>, <<>>, <<>>, Cmd)>>,
         <<RuleVars(SymD, <<SymXb>>, <<>>)>>, {}),
    \* a:: b ; echo one ; a:: c ; echo two
    Plan(<<DoubleColon(Rule(<<SymA>>, <<>>, <<SymB>>, <<>>, One)),
           DoubleColon(Rule(<<SymA>>, <<>>, <<SymC>>, <<>>, Two))>>, <<>>, {}),
    \* a:: b ; a:: ; echo one ; a:: c ; echo two
    Plan(<<DoubleColon(Rule(<<SymA>>, <<>>, <<SymB>>, <<>>, <<>>)),
           DoubleColon(Rule(<<SymA>>, <<>>, <<>>, <<>>, One)),
           DoubleColon(Rule(<<SymA>>, <<>>, <<SymC>>, <<>>, Two))>>, <<>>, {}),
    \* a: b ; a:: c ; echo one
    Plan(<<Rule(<<SymA>>, <<>>, <<SymB>>, <<>>, <<>>),
           DoubleColon(Rule(<<SymA>>, <<>>, <<SymC>>, <<>>, One))>>, <<>>, {}),
    \* a:: b ; echo one ; a: c
    Plan(<<DoubleColon(Rule(<<SymA>>, <<>>, <<SymB>>, <<>>, One)),
           Rule(<<SymA>>, <<>>, <<SymC>>, <<>>, <<>>)>>, <<>>, {}) }

\* The goals on the command line
TargetsPool == { <<>>, <<SymB>>, <<SymA, SymAll>> }

\* make_dep is called with the rules the evaluator has collected
InitPlan ==
  /\ FLAGS \in {DefaultFlags, [DefaultFlags EXCEPT !.use_ninja_validations = TRUE],
                [DefaultFlags EXCEPT !.werror_overriding_commands = TRUE]}
  /\ plan_ev \in PlanPool
  /\ src_files = plan_ev.files
  /\ plan_targets \in TargetsPool
  /\ rules = <<>> /\ implicit_rules = <<>> /\ suffix_rules = <<>>
  /\ first_rule = None /\ phony = {}
  /\ done = <<>> /\ dep_nodes = <<>>
  /\ plan_pc = "new" /\ plan_stack = <<>> /\ plan_ret = <<>> /\ plan_err = ""
  /\ plan_warn = <<>>
  /\ IdleRegen /\ IdleTree /\ IdleInner /\ IdleFind /\ IdleSym /\ IdleExp /\ IdleMk /\ IdleCmd /\ IdleRun

\* DepBuilder::new after populate_rules answered db: its error is make_dep's,
\* or else handle_special_targets is next
DepBuilderBuilt(db) ==
  /\ plan_warn' = db.warn
  /\ IF db.err # ""
     THEN /\ plan_err' = db.err
          /\ plan_pc' = "done"
          /\ UNCHANGED <<rules, implicit_rules, suffix_rules, first_rule, phony>>
     ELSE /\ rules' = db.rules
          /\ implicit_rules' = db.implicit_rules
          /\ suffix_rules' = handle_suffixes(db.rules, db.suffix_rules)
          /\ first_rule' = db.first_rule
          /\ phony' = handle_special_targets(db.rules)
          /\ plan_pc' = "idle"
          /\ UNCHANGED plan_err

\* DepBuilder::new
DepBuilderNew ==
  /\ plan_pc = "new"
  /\ \E db \in {populate_rules(plan_ev.rules, plan_ev.rule_vars)} : DepBuilderBuilt(db)
  /\ UNCHANGED <<plan_ev, src_files, done, dep_nodes, plan_targets, plan_stack,
                 plan_ret>>
  /\ UNCHANGED notPlan

\* An activation of build_plan: at its entry ("call"), at the entry of
\* pick_rule ("pick"), in pick_rule's loop over irules.rev() at irules[k]
\* ("irules"), before fill_dep_node ("fill") or inside the loop over
\* actual_inputs, actual_order_only_inputs or actual_validations, at index i.
\* input is the output it was called for, output the one it plans (the parent
\* if reparented), merger and pattern_rule are its picked_rule_info.
PlanFrame(phase, n, input, output, i) ==
  [phase |-> phase, n |-> n, input |-> input, output |-> output, i |-> i,
   reparented |-> FALSE, irules |-> <<>>, k |-> 0,
   merger |-> None, pattern_rule |-> NoRule]

PlanTop == plan_stack[Len(plan_stack)]

PlanCallers == SubSeq(plan_stack, 1, Len(plan_stack) - 1)

\* The list the loop of the phase runs over
actual_list(node, phase) ==
  CASE phase = "inputs" -> node.actual_inputs
    [] phase = "order_onlys" -> node.actual_order_only_inputs
    [] phase = "validations" -> node.actual_validations

\* n.deps.push / n.order_onlys.push / n.validations.push
push_dep(node, phase, pair) ==
  CASE phase = "inputs" -> [node EXCEPT !.deps = Append(@, pair)]
    [] phase = "order_onlys" -> [node EXCEPT !.order_onlys = Append(@, pair)]
    [] phase = "validations" -> [node EXCEPT !.validations = Append(@, pair)]

\* DepBuilder::build, up to its loop over the targets
Build ==
  /\ plan_pc = "idle"
  /\ IF first_rule = None
     THEN /\ plan_err' = "*** No targets."
          /\ plan_pc' = "done"
          /\ UNCHANGED plan_targets
     ELSE /\ plan_pc' = "building"
          /\ plan_targets' = IF plan_targets = <<>> THEN <<first_rule>>
                             ELSE plan_targets
          /\ UNCHANGED plan_err
  /\ UNCHANGED <<done, dep_nodes, plan_stack, plan_ret>>
  /\ UNCHANGED notDep

\* build(): self.build_plan(target, None)
BuildTarget ==
  /\ plan_pc = "building" /\ plan_stack = <<>> /\ plan_targets # <<>>
  /\ plan_stack' = <<PlanFrame("call", 0, Head(plan_targets), Head(plan_targets), 0)>>
  /\ UNCHANGED <<done, dep_nodes, plan_pc, plan_targets, plan_ret, plan_err>>
  /\ UNCHANGED notDep

\* build(): Ok(nodes)
BuildReturn ==
  /\ plan_pc = "building" /\ plan_stack = <<>> /\ plan_targets = <<>>
  /\ plan_pc' = "done"
  /\ UNCHANGED <<done, dep_nodes, plan_stack, plan_targets, plan_ret, plan_err>>
  /\ UNCHANGED notDep

\* build_plan returns the node c, dn being the nodes at that point: build()
\* pushes (target, c) on nodes; a build_plan pushes (input, c) on the list of
\* its loop and goes on with the next input
PlanReturn(c, dn) ==
  IF PlanCallers = <<>>
  THEN /\ plan_ret' = Append(plan_ret, <<PlanTop.input, c>>)
       /\ plan_targets' = Tail(plan_targets)
       /\ plan_stack' = <<>>
       /\ dep_nodes' = dn
  ELSE /\ dep_nodes' =
            [dn EXCEPT ![PlanCallers[Len(PlanCallers)].n] =
               push_dep(@, PlanCallers[Len(PlanCallers)].phase, <<PlanTop.input, c>>)]
       /\ plan_stack' = [PlanCallers EXCEPT ![Len(PlanCallers)].i = @ + 1]
       /\ UNCHANGED <<plan_ret, plan_targets>>

\* build_plan: if let Some(found) = self.done.get(&output)
BuildPlanFound ==
  /\ plan_pc = "building" /\ plan_stack # <<>> /\ PlanTop.phase = "call"
  /\ done_get(done, PlanTop.input) # 0
  /\ PlanReturn(done_get(done, PlanTop.input), dep_nodes)
  /\ UNCHANGED <<done, plan_pc, plan_err>>
  /\ UNCHANGED notDep

\* build_plan: DepNode::new and self.done.insert(output, n.clone())
BuildPlanNew ==
  /\ plan_pc = "building" /\ plan_stack # <<>> /\ PlanTop.phase = "call"
  /\ done_get(done, PlanTop.input) = 0
  /\ dep_nodes' = Append(dep_nodes, DepNode(PlanTop.input, PlanTop.input \in phony))
  /\ done' = insert(done, PlanTop.input, Len(dep_nodes) + 1)
  /\ plan_stack' = [plan_stack EXCEPT ![Len(plan_stack)].phase = "pick",
                                      ![Len(plan_stack)].n = Len(dep_nodes) + 1]
  /\ UNCHANGED <<plan_pc, plan_targets, plan_ret, plan_err>>
  /\ UNCHANGED notDep

\* build_plan after pick_rule answered Some(PickedRuleInfo), d being the map
\* pick_rule left behind: after the first pick_rule an implicit output is
\* planned as its parent, with a second pick_rule; else fill_dep_node is next
BuildPlanPicked(d, merger, pattern_rule) ==
  IF ~PlanTop.reparented /\ merger # None /\ rules[merger].parent_sym # None
  THEN /\ done' = insert(d, rules[merger].parent_sym, PlanTop.n)
       /\ dep_nodes' = [dep_nodes EXCEPT ![PlanTop.n].output = rules[merger].parent_sym]
       /\ plan_stack' = [plan_stack EXCEPT
                           ![Len(plan_stack)].phase = "pick",
                           ![Len(plan_stack)].output = rules[merger].parent_sym,
                           ![Len(plan_stack)].reparented = TRUE]
       /\ UNCHANGED <<plan_ret, plan_targets>>
  ELSE /\ done' = d
       /\ plan_stack' = [plan_stack EXCEPT
                           ![Len(plan_stack)].phase = "fill",
                           ![Len(plan_stack)].merger = merger,
                           ![Len(plan_stack)].pattern_rule = pattern_rule]
       /\ UNCHANGED <<dep_nodes, plan_ret, plan_targets>>

\* pick_rule: the merger with a primary rule, or else implicit_rules.get
PickRule ==
  /\ plan_pc = "building" /\ plan_stack # <<>> /\ PlanTop.phase = "pick"
  /\ IF lookup_rule_merger(PlanTop.output) # None
        /\ rules[PlanTop.output].primary_rule # 0
     THEN BuildPlanPicked(done, PlanTop.output, NoRule)
     ELSE /\ plan_stack' =
               [plan_stack EXCEPT
                  ![Len(plan_stack)].phase = "irules",
                  ![Len(plan_stack)].irules =
                     RuleTrie_get(implicit_rules, PlanTop.output, 0),
                  ![Len(plan_stack)].k =
                     Len(RuleTrie_get(implicit_rules, PlanTop.output, 0))]
          /\ UNCHANGED <<done, dep_nodes, plan_ret, plan_targets>>
  /\ UNCHANGED <<plan_pc, plan_err>>
  /\ UNCHANGED notDep

\* pick_rule: the turn of the loop over irules.rev() on what
\* can_pick_implicit_rule answered
PickImplicit(c) ==
  IF c.rule = NoRule
  THEN /\ plan_stack' = [plan_stack EXCEPT ![Len(plan_stack)].k = @ - 1]
       /\ UNCHANGED <<done, dep_nodes, plan_ret, plan_targets>>
  ELSE BuildPlanPicked(c.done, lookup_rule_merger(PlanTop.output), c.rule)

\* pick_rule after the loop over irules.rev(), on the suffix rule found:
\* that rule, or the merger alone, or None and build_plan returns Ok(n)
PickSuffix(sr) ==
  IF sr # NoRule \/ lookup_rule_merger(PlanTop.output) # None
  THEN BuildPlanPicked(done, lookup_rule_merger(PlanTop.output), sr)
  ELSE /\ PlanReturn(PlanTop.n, dep_nodes)
       /\ UNCHANGED done

\* pick_rule: one turn of the loop over irules.rev(), or what follows the
\* loop
PickRuleLoop ==
  /\ plan_pc = "building" /\ plan_stack # <<>> /\ PlanTop.phase = "irules"
  /\ IF PlanTop.k = 0
     THEN \E sr \in {pick_suffix_rule(PlanTop.output)} : PickSuffix(sr)
     ELSE \E c \in {can_pick_implicit_rule(done, PlanTop.irules[PlanTop.k].rule,
                                          PlanTop.output, PlanTop.n)} :
            PickImplicit(c)
  /\ UNCHANGED <<plan_pc, plan_err>>
  /\ UNCHANGED notDep

\* build_plan from fill_dep_node to the loop over actual_inputs
BuildPlanFill ==
  /\ plan_pc = "building" /\ plan_stack # <<>> /\ PlanTop.phase = "fill"
  /\ dep_nodes' = [dep_nodes EXCEPT
                     ![PlanTop.n] = fill_dep_node(merger_or_new(PlanTop), PlanTop.output,
                                                  PlanTop.pattern_rule, @)]
  /\ done' = insert_all(done, merger_or_new(PlanTop).implicit_outputs, PlanTop.n, 1)
  /\ plan_stack' = [plan_stack EXCEPT ![Len(plan_stack)].phase = "inputs",
                                      ![Len(plan_stack)].i = 1]
  /\ UNCHANGED <<plan_pc, plan_targets, plan_ret, plan_err>>
  /\ UNCHANGED notDep

InLoop ==
  /\ plan_pc = "building" /\ plan_stack # <<>>
  /\ PlanTop.phase \in {"inputs", "order_onlys", "validations"}

\* The lists are copied before the loops; a node's lists do not change once
\* its loops have started
LoopList == actual_list(dep_nodes[PlanTop.n], PlanTop.phase)

\* One turn of a loop: self.build_plan(input, Some(output))
BuildPlanInput ==
  /\ InLoop /\ PlanTop.i <= Len(LoopList)
  /\ PlanTop.phase = "validations" => FLAGS.use_ninja_validations
  /\ Len(plan_stack) < MaxPlanStack
  /\ plan_stack' = Append(plan_stack,
                          PlanFrame("call", 0, LoopList[PlanTop.i], LoopList[PlanTop.i], 0))
  /\ UNCHANGED <<done, dep_nodes, plan_pc, plan_targets, plan_ret, plan_err>>
  /\ UNCHANGED notDep

\* ".KATI_VALIDATIONS not allowed without --use_ninja_validations": every
\* activation returns the error
BuildPlanError ==
  /\ InLoop /\ PlanTop.i <= Len(LoopList)
  /\ PlanTop.phase = "validations" /\ ~FLAGS.use_ninja_validations
  /\ plan_err' = ".KATI_VALIDATIONS not allowed without --use_ninja_validations"
  /\ plan_pc' = "done"
  /\ plan_stack' = <<>>
  /\ UNCHANGED <<done, dep_nodes, plan_targets, plan_ret>>
  /\ UNCHANGED notDep

\* The end of the loop over actual_inputs or actual_order_only_inputs
BuildPlanAdvance ==
  /\ InLoop /\ PlanTop.i > Len(LoopList)
  /\ PlanTop.phase # "validations"
  /\ plan_stack' = [plan_stack EXCEPT
                      ![Len(plan_stack)].phase =
                         IF @ = "inputs" THEN "order_onlys" ELSE "validations",
                      ![Len(plan_stack)].i = 1]
  /\ UNCHANGED <<done, dep_nodes, plan_pc, plan_targets, plan_ret, plan_err>>
  /\ UNCHANGED notDep

\* The end of the loop over actual_validations: has_rule, Ok(n)
BuildPlanReturn ==
  /\ InLoop /\ PlanTop.i > Len(LoopList)
  /\ PlanTop.phase = "validations"
  /\ PlanReturn(PlanTop.n,
                [dep_nodes EXCEPT
                   ![PlanTop.n].has_rule = TRUE,
                   ![PlanTop.n].is_default_target = (first_rule = PlanTop.output)])
  /\ UNCHANGED <<done, plan_pc, plan_err>>
  /\ UNCHANGED notDep

NextPlan ==
  \/ DepBuilderNew
  \/ Build
  \/ BuildTarget
  \/ BuildReturn
  \/ BuildPlanFound
  \/ BuildPlanNew
  \/ PickRule
  \/ PickRuleLoop
  \/ BuildPlanFill
  \/ BuildPlanInput
  \/ BuildPlanError
  \/ BuildPlanAdvance
  \/ BuildPlanReturn

(***************************************************************************)
(* parser.rs: a makefile becomes statements.  A line is a sequence of      *)
(* bytes; the buffer is the sequence of its lines.  The makefiles of this  *)
(* model have no backslash continuation and no include, override, export   *)
(* or unexport directive.  Messages are written with ' for a backquote.    *)
(***************************************************************************)
\* find_outside_paren: the first position of a byte of pattern outside
\* parentheses and braces, 0 when there is none
RECURSIVE find_outside_paren_from(_, _, _, _, _)
find_outside_paren_from(s, pattern, i, paren_stack, prev_backslash) ==
  IF i > Len(s) THEN 0
  ELSE IF s[i] \in pattern /\ paren_stack = <<>> /\ ~prev_backslash THEN i
  ELSE find_outside_paren_from(s, pattern, i + 1,
         IF s[i] = "(" THEN Append(paren_stack, ")")
         ELSE IF s[i] = "{" THEN Append(paren_stack, "}")
         ELSE IF /\ s[i] \in {")", "}"}
                 /\ paren_stack # <<>>
                 /\ paren_stack[Len(paren_stack)] = s[i]
         THEN SubSeq(paren_stack, 1, Len(paren_stack) - 1)
         ELSE paren_stack,
         s[i] = "\\" /\ ~prev_backslash)

find_outside_paren(s, pattern) == find_outside_paren_from(s, pattern, 1, <<>>, FALSE)

\* s[i..] of the source, for a position i counted from 1
From(s, i) == SubSeq(s, i, Len(s))

\* Parser::remove_comment
remove_comment(line) ==
  IF find_outside_paren(line, {"#"}) # 0
  THEN SubSeq(line, 1, find_outside_paren(line, {"#"}) - 1)
  ELSE line

\* Parser::get_directive
get_directive(line) ==
  IF Len(line) < 4 THEN <<>>
  ELSE IF \E i \in 1..Len(line) : i <= 9 /\ line[i] \in {" ", "\t", "#"}
  THEN SubSeq(line, 1,
         (CHOOSE i \in 1..Len(line) :
            /\ line[i] \in {" ", "\t", "#"}
            /\ \A j \in 1..(i - 1) : line[j] \notin {" ", "\t", "#"}) - 1)
  ELSE SubSeq(line, 1, IF Len(line) < 9 THEN Len(line) ELSE 9)

\* the rest handle_make_directive hands to the directive's parser
directive_rest(line) ==
  trim_right_space(remove_comment(trim_left_space(
    From(line, Len(get_directive(line)) + 1))))

\* parse_expr: the value is kept as its text; a comment is cut off unless
\* the text is a recipe or the body of a define
should_handle_comments(opt) == opt \notin {"Define", "Command"}

parse_expr(s, opt) ==
  IF should_handle_comments(opt) /\ memchr("#", s) # 0
  THEN SubSeq(s, 1, memchr("#", s) - 1)
  ELSE s

\* The statement lists: the makefile's own, and the two of each IfStmt
RootStmts == [stmt |-> 0, branch |-> "root"]
true_stmts(loc) == [stmt |-> loc, branch |-> "true"]
false_stmts(loc) == [stmt |-> loc, branch |-> "false"]

NoDirective == [is_some |-> FALSE, is_override |-> FALSE, export |-> FALSE]

\* Parser::with_buf
Parser_with_buf(buf, line, fixed_lineno) ==
  [buf |-> buf, l |-> 0, after_rule |-> FALSE,
   stmts |-> (RootStmts :> <<>>), out_stmts |-> RootStmts,
   define_name |-> None, num_define_nest |-> 0, define_start |-> 0,
   define_start_line |-> 0,
   orig_line_with_directives |-> None, current_directive |-> NoDirective,
   num_if_nest |-> 0, if_stack |-> <<>>,
   loc |-> line, fixed_lineno |-> fixed_lineno,
   err |-> "", warn |-> <<>>]

\* error_loc!: the parser returns Err
parse_error(p, msg) == [p EXCEPT !.err = msg]

\* self.out_stmts.lock().push(stmt)
push_stmt(p, stmt) == [p EXCEPT !.stmts[p.out_stmts] = Append(@, stmt)]

RuleStmt(loc, lhs, sep, rhs) ==
  [kind |-> "Rule", loc |-> loc, lhs |-> lhs, sep |-> sep, rhs |-> rhs]

CommandStmt(loc, orig, expr) ==
  [kind |-> "Command", loc |-> loc, orig |-> orig, expr |-> expr]

IfStmt(loc, op, lhs, rhs) ==
  [kind |-> "If", loc |-> loc, op |-> op, lhs |-> lhs, rhs |-> rhs]

ParsedAssignStmt(loc, lhs, rhs, orig_rhs, op, directive, is_final) ==
  [kind |-> "Assign", loc |-> loc, lhs |-> lhs, rhs |-> rhs, orig_rhs |-> orig_rhs,
   op |-> op, directive |-> directive, is_final |-> is_final]

\* parse_rule; sep is the position of the colon, 0 for None
rule_found(line, sep) ==
  IF find_outside_paren(From(line, sep + 1), {"=", ";"}) = 0 THEN 0
  ELSE find_outside_paren(From(line, sep + 1), {"=", ";"}) + sep

rule_sep(line, found) ==
  IF found = 0 THEN "Null"
  ELSE IF line[found] = ";" THEN "Semicolon"
  ELSE IF starts_with(From(line, found), <<"=", "$", "=">>) THEN "FinalEq"
  ELSE "Eq"

parse_rule_stmt(p, line, found) ==
  IF found = 0
  THEN RuleStmt(p.loc, parse_expr(line, "Normal"), "Null", None)
  ELSE RuleStmt(p.loc,
         parse_expr(trim_space(SubSeq(line, 1, found - 1)), "Normal"),
         rule_sep(line, found),
         parse_expr(
           trim_left_space(From(line,
             (IF rule_sep(line, found) = "FinalEq" THEN found + 2 ELSE found) + 1)),
           IF rule_sep(line, found) = "Semicolon" THEN "Command" ELSE "Normal"))

\* a parse_rule that takes a tab-indented line for a rule
parse_rule_indented(p, line0, sep) ==
  IF trim_left_space(line0) = <<>> THEN p
  ELSE push_stmt([p EXCEPT !.after_rule = TRUE],
         parse_rule_stmt(p, trim_left_space(line0),
                         rule_found(trim_left_space(line0), sep)))

parse_rule(p, line0, sep) ==
  IF trim_left_space(line0) = <<>> THEN p
  ELSE IF starts_with(p.orig_line_with_directives, <<"\t">>)
  THEN parse_error(p, "*** commands commence before first target.")
  ELSE push_stmt([p EXCEPT !.after_rule = TRUE],
         parse_rule_stmt(p, trim_left_space(line0),
                         rule_found(trim_left_space(line0), sep)))

\* parse_assign_statement; sep is the position of the "="
parse_assign_statement(line, sep) ==
  [lhs |-> trim_space(
             IF sep > 1 /\ line[sep - 1] \in {":", "+", "?"}
             THEN SubSeq(line, 1, sep - 2)
             ELSE SubSeq(line, 1, sep - 1)),
   rhs |-> trim_left_space(From(line, sep + 1)),
   op |-> IF sep > 1 /\ line[sep - 1] = ":" THEN "ColonEq"
          ELSE IF sep > 1 /\ line[sep - 1] = "+" THEN "PlusEq"
          ELSE IF sep > 1 /\ line[sep - 1] = "?" THEN "QuestionEq"
          ELSE "Eq"]

assign_rhs(rhs) ==
  IF starts_with(rhs, <<"$", "=">>) THEN trim_left_space(From(rhs, 3)) ELSE rhs

parse_assign(p, line, separator_pos) ==
  IF separator_pos = 1 THEN parse_error(p, "*** empty variable name ***")
  ELSE push_stmt([p EXCEPT !.after_rule = FALSE],
         ParsedAssignStmt(p.loc,
           parse_expr(parse_assign_statement(line, separator_pos).lhs, "Normal"),
           parse_expr(assign_rhs(parse_assign_statement(line, separator_pos).rhs),
                      "Normal"),
           assign_rhs(parse_assign_statement(line, separator_pos).rhs),
           parse_assign_statement(line, separator_pos).op,
           p.current_directive,
           starts_with(parse_assign_statement(line, separator_pos).rhs, <<"$", "=">>)))

parse_rule_or_assign_at(p, line, sep) ==
  IF sep = 0 THEN parse_rule(p, line, 0)
  ELSE IF line[sep] = ";" THEN parse_rule(p, line, 0)
  ELSE IF line[sep] = "=" THEN parse_assign(p, line, sep)
  ELSE IF sep < Len(line) /\ line[sep + 1] = "=" THEN parse_assign(p, line, sep + 1)
  ELSE parse_rule(p, line, sep)

parse_rule_or_assign(p, line) ==
  parse_rule_or_assign_at(p, line, find_outside_paren(line, {":", "=", ";"}))

\* parse_define
parse_define(p, line) ==
  IF line = <<>> THEN parse_error(p, "*** empty variable name.")
  ELSE [p EXCEPT !.define_name = line, !.num_define_nest = 1, !.define_start = 0,
                 !.define_start_line = p.loc, !.after_rule = FALSE]

\* the lines of a define's body, joined as they are in the buffer
RECURSIVE join_lines(_)
join_lines(ls) ==
  IF ls = <<>> THEN <<>>
  ELSE IF Len(ls) = 1 THEN ls[1]
  ELSE ls[1] \o <<"\n">> \o join_lines(Tail(ls))

define_nest(p, directive) ==
  IF directive = <<"d", "e", "f", "i", "n", "e">> THEN p.num_define_nest + 1
  ELSE IF directive = <<"e", "n", "d", "e", "f">> THEN p.num_define_nest - 1
  ELSE p.num_define_nest

define_body(p) ==
  IF p.define_start > 0 THEN join_lines(SubSeq(p.buf, p.define_start, p.l - 1))
  ELSE <<>>

\* parse_inside_define
parse_inside_define(p, line0) ==
  IF define_nest(p, get_directive(trim_left_space(line0))) > 0
  THEN [p EXCEPT !.num_define_nest = define_nest(p, get_directive(trim_left_space(line0))),
                 !.define_start = IF @ = 0 THEN p.l ELSE @]
  ELSE push_stmt(
         [p EXCEPT !.num_define_nest = 0,
                   !.define_name = None,
                   !.warn = IF trim_right_space(remove_comment(trim_left_space(
                                   From(trim_left_space(line0), 6)))) # <<>>
                            THEN Append(@, "extraneous text after 'endef' directive")
                            ELSE @],
         ParsedAssignStmt(p.define_start_line, parse_expr(p.define_name, "Normal"),
                          parse_expr(define_body(p), "Define"), define_body(p),
                          "Eq", p.current_directive, FALSE))

\* IfState
IfState(stmt, is_in_else, num_nest) ==
  [stmt |-> stmt, is_in_else |-> is_in_else, num_nest |-> num_nest]

\* enter_if; IfStmt::new has made the two statement lists of the statement
enter_if(p, stmt) ==
  [p EXCEPT !.if_stack = Append(@, IfState(stmt.loc, FALSE, p.num_if_nest)),
            !.stmts = (true_stmts(stmt.loc) :> <<>>) @@ (false_stmts(stmt.loc) :> <<>>) @@ @,
            !.out_stmts = true_stmts(stmt.loc)]

\* parse_ifdef
parse_ifdef(p, line, directive) ==
  enter_if(push_stmt(p, IfStmt(p.loc, IF directive[3] = "n" THEN "Ifndef" ELSE "Ifdef",
                               parse_expr(line, "Normal"), None)),
           IfStmt(p.loc, IF directive[3] = "n" THEN "Ifndef" ELSE "Ifdef",
                  parse_expr(line, "Normal"), None))

\* parse_ifeq: the two operands, None when the syntax is invalid
quoted_end(line) ==
  IF line = <<>> \/ line[1] \notin {"'", "\""} THEN 0
  ELSE IF memchr(line[1], Tail(line)) = 0 THEN 0
  ELSE memchr(line[1], Tail(line)) + 1

ifeq_operands(line) ==
  IF line = <<>> THEN None
  ELSE IF line[1] = "(" /\ line[Len(line)] = ")"
  THEN IF find_outside_paren(SubSeq(line, 2, Len(line) - 1), {","}) = 0 THEN None
       ELSE <<SubSeq(line, 2, find_outside_paren(SubSeq(line, 2, Len(line) - 1), {","})),
              trim_left_space(SubSeq(line,
                find_outside_paren(SubSeq(line, 2, Len(line) - 1), {","}) + 2,
                Len(line) - 1)),
              <<>> >>
  ELSE IF quoted_end(line) = 0 THEN None
  ELSE IF quoted_end(trim_left_space(From(line, quoted_end(line) + 1))) = 0 THEN None
  ELSE <<SubSeq(line, 2, quoted_end(line) - 1),
         SubSeq(trim_left_space(From(line, quoted_end(line) + 1)), 2,
                quoted_end(trim_left_space(From(line, quoted_end(line) + 1))) - 1),
         trim_left_space(From(trim_left_space(From(line, quoted_end(line) + 1)),
                quoted_end(trim_left_space(From(line, quoted_end(line) + 1))) + 1)) >>

parse_ifeq_stmt(p, directive, operands) ==
  IfStmt(p.loc, IF directive[3] = "n" THEN "Ifneq" ELSE "Ifeq",
         parse_expr(operands[1], "Normal"), parse_expr(operands[2], "Normal"))

parse_ifeq(p, line, directive) ==
  IF ifeq_operands(line) = None
  THEN parse_error(p, "*** invalid syntax in conditional.")
  ELSE enter_if(
         push_stmt([p EXCEPT !.warn = IF ifeq_operands(line)[3] # <<>>
                                      THEN Append(@, "extraneous text after 'ifeq' directive")
                                      ELSE @],
                   parse_ifeq_stmt(p, directive, ifeq_operands(line))),
         parse_ifeq_stmt(p, directive, ifeq_operands(line)))

\* check_if_stack
check_if_stack(p) == p.if_stack # <<>>

IfDirectives == {<<"i", "f", "d", "e", "f">>, <<"i", "f", "n", "d", "e", "f">>, <<"i", "f", "e", "q">>, <<"i", "f", "n", "e", "q">>}

\* handle_else_if_directive, for a line whose directive is one of the four
handle_else_if_directive(p, line) ==
  IF get_directive(line) \in {<<"i", "f", "d", "e", "f">>, <<"i", "f", "n", "d", "e", "f">>}
  THEN parse_ifdef(p, directive_rest(line), get_directive(line))
  ELSE parse_ifeq(p, directive_rest(line), get_directive(line))

\* the end of parse_else: num_if_nest is reset unless the branch returned Err
else_done(p) == IF p.err # "" THEN p ELSE [p EXCEPT !.num_if_nest = 0]

\* parse_else
parse_else(p, line) ==
  IF ~check_if_stack(p) THEN parse_error(p, "*** extraneous 'else'.")
  ELSE IF p.if_stack[Len(p.if_stack)].is_in_else
  THEN parse_error(p, "*** only one 'else' per conditional.")
  ELSE IF trim_left_space(line) = <<>>
  THEN [p EXCEPT !.if_stack[Len(p.if_stack)].is_in_else = TRUE,
                 !.out_stmts = false_stmts(p.if_stack[Len(p.if_stack)].stmt)]
  ELSE IF get_directive(trim_left_space(line)) \in IfDirectives
  THEN else_done(handle_else_if_directive(
         [p EXCEPT !.if_stack[Len(p.if_stack)].is_in_else = TRUE,
                   !.out_stmts = false_stmts(p.if_stack[Len(p.if_stack)].stmt),
                   !.num_if_nest = p.if_stack[Len(p.if_stack)].num_nest + 1],
         trim_left_space(line)))
  ELSE [p EXCEPT !.if_stack[Len(p.if_stack)].is_in_else = TRUE,
                 !.out_stmts = false_stmts(p.if_stack[Len(p.if_stack)].stmt),
                 !.warn = Append(@, "extraneous text after 'else' directive")]

\* parse_endif: the stack after the pops, and the list of its top
popped(if_stack, n) ==
  IF n >= Len(if_stack) THEN <<>> ELSE SubSeq(if_stack, 1, Len(if_stack) - n)

out_of(if_stack) ==
  IF if_stack = <<>> THEN RootStmts
  ELSE IF if_stack[Len(if_stack)].is_in_else
  THEN false_stmts(if_stack[Len(if_stack)].stmt)
  ELSE true_stmts(if_stack[Len(if_stack)].stmt)

parse_endif_single(p, line) ==
  IF ~check_if_stack(p) THEN parse_error(p, "*** extraneous 'endif'.")
  ELSE IF line # <<>>
  THEN parse_error(p, "extraneous text after 'endif' directive")
  ELSE [p EXCEPT !.if_stack = popped(p.if_stack, 1),
                 !.out_stmts = out_of(popped(p.if_stack, 1))]

parse_endif(p, line) ==
  IF ~check_if_stack(p) THEN parse_error(p, "*** extraneous 'endif'.")
  ELSE IF line # <<>>
  THEN parse_error(p, "extraneous text after 'endif' directive")
  ELSE [p EXCEPT !.if_stack = popped(p.if_stack, p.if_stack[Len(p.if_stack)].num_nest + 1),
                 !.out_stmts = out_of(popped(p.if_stack,
                                  p.if_stack[Len(p.if_stack)].num_nest + 1))]

MakeDirectives == IfDirectives \cup {<<"d", "e", "f", "i", "n", "e">>, <<"e", "l", "s", "e">>, <<"e", "n", "d", "i", "f">>}

\* handle_make_directive, for a line whose directive is one of MakeDirectives
handle_make_directive(p, line) ==
  IF get_directive(line) = <<"d", "e", "f", "i", "n", "e">> THEN parse_define(p, directive_rest(line))
  ELSE IF get_directive(line) \in {<<"i", "f", "d", "e", "f">>, <<"i", "f", "n", "d", "e", "f">>}
  THEN parse_ifdef(p, directive_rest(line), get_directive(line))
  ELSE IF get_directive(line) \in {<<"i", "f", "e", "q">>, <<"i", "f", "n", "e", "q">>}
  THEN parse_ifeq(p, directive_rest(line), get_directive(line))
  ELSE IF get_directive(line) = <<"e", "l", "s", "e">> THEN parse_else(p, directive_rest(line))
  ELSE parse_endif(p, directive_rest(line))

\* parse_line
parse_line(p, line) ==
  IF p.define_name # None THEN parse_inside_define(p, line)
  ELSE IF line = <<>> THEN p
  ELSE IF starts_with(line, <<"\t">>) /\ p.after_rule
  THEN push_stmt([p EXCEPT !.current_directive = NoDirective],
                 CommandStmt(p.loc, line, parse_expr(Tail(line), "Command")))
  ELSE IF starts_with(trim_left_space(line), <<"#">>)
  THEN [p EXCEPT !.current_directive = NoDirective]
  ELSE IF get_directive(trim_left_space(line)) \in MakeDirectives
  THEN handle_make_directive([p EXCEPT !.current_directive = NoDirective],
                             trim_left_space(line))
  ELSE parse_rule_or_assign([p EXCEPT !.current_directive = NoDirective],
                            trim_left_space(line))

\* parse: one turn of its loop, for the line the buffer has at l
parse_step(p, line) ==
  parse_line([p EXCEPT !.loc = IF p.fixed_lineno THEN @ ELSE @ + 1,
                       !.orig_line_with_directives = line],
             line)

\* a parse that makes no check after the last line
parse_end_unchecked(p) == p

\* parse: after the last line
parse_end(p) ==
  IF p.err # "" THEN p
  ELSE IF p.if_stack # <<>> THEN parse_error(p, "*** missing 'endif'.")
  ELSE IF p.define_name # None
  THEN parse_error(p, "*** missing 'endef', unterminated 'define'.")
  ELSE p

\* parse_buf_no_stats: the statements of one line, parsed at a fixed location
parse_buf_no_stats(line, loc) ==
  parse_end(parse_step([Parser_with_buf(<<line>>, loc, TRUE) EXCEPT !.l = 1], line))

(***************************************************************************)
(* eval.rs, rule.rs: the statements are evaluated in order.  A value is    *)
(* its text, in which $(NAME) stands for the variable NAME; assignments    *)
(* are kept to what the rules need of them, no variable is read-only, and  *)
(* .KATI_ALLOW_RULES is not set.                                           *)
(***************************************************************************)
\* a global variable: its text, and whether the text is expanded when read
MkVar(text, recursive) == [text |-> text, recursive |-> recursive]

\* Value::eval_to_buf
RECURSIVE eval_to_buf(_, _)
eval_to_buf(v, vs) ==
  IF v = <<>> THEN <<>>
  ELSE IF starts_with(v, <<"$", "(">>) /\ memchr(")", v) # 0
  THEN (IF SubSeq(v, 3, memchr(")", v) - 1) \notin DOMAIN vs THEN <<>>
        ELSE IF vs[SubSeq(v, 3, memchr(")", v) - 1)].recursive
        THEN eval_to_buf(vs[SubSeq(v, 3, memchr(")", v) - 1)].text, vs)
        ELSE vs[SubSeq(v, 3, memchr(")", v) - 1)].text)
       \o eval_to_buf(From(v, memchr(")", v) + 1), vs)
  ELSE <<v[1]>> \o eval_to_buf(Tail(v), vs)

\* eval_assign, for the global variable the statement names
mk_eval_assign(stmt, vs) ==
  IF stmt.op = "ColonEq"
  THEN insert(vs, eval_to_buf(stmt.lhs, vs), MkVar(eval_to_buf(stmt.rhs, vs), FALSE))
  ELSE IF stmt.op = "QuestionEq" /\ eval_to_buf(stmt.lhs, vs) \in DOMAIN vs THEN vs
  ELSE IF stmt.op = "PlusEq" /\ eval_to_buf(stmt.lhs, vs) \in DOMAIN vs
  THEN insert(vs, eval_to_buf(stmt.lhs, vs),
              [vs[eval_to_buf(stmt.lhs, vs)] EXCEPT
                 !.text = @ \o <<" ">> \o
                          (IF vs[eval_to_buf(stmt.lhs, vs)].recursive THEN stmt.rhs
                           ELSE eval_to_buf(stmt.rhs, vs))])
  ELSE insert(vs, eval_to_buf(stmt.lhs, vs), MkVar(stmt.rhs, TRUE))

\* eval_if: the statement list the conditional selects, None for
\* "*** invalid syntax in conditional."
if_defined(stmt, vs) ==
  /\ trim_right_space(eval_to_buf(stmt.lhs, vs)) \in DOMAIN vs
  /\ eval_to_buf(<<"$", "(">> \o trim_right_space(eval_to_buf(stmt.lhs, vs)) \o <<")">>, vs) # <<>>

if_is_true(stmt, vs) ==
  IF stmt.op \in {"Ifdef", "Ifndef"}
  THEN if_defined(stmt, vs) = (stmt.op = "Ifdef")
  ELSE (eval_to_buf(stmt.lhs, vs) = eval_to_buf(stmt.rhs, vs)) = (stmt.op = "Ifeq")

if_invalid(stmt, vs) ==
  /\ stmt.op \in {"Ifdef", "Ifndef"}
  /\ \E i \in 1..Len(trim_right_space(eval_to_buf(stmt.lhs, vs))) :
       trim_right_space(eval_to_buf(stmt.lhs, vs))[i] \in {" ", "\t"}

\* trim_leading_curdir
RECURSIVE trim_leading_curdir(_)
trim_leading_curdir(s) ==
  IF starts_with(s, <<".", "/">>) THEN trim_leading_curdir(From(s, 3)) ELSE s

\* rule.rs: is_pattern_rule
is_pattern_rule(target) == memchr("%", target) # 0

curdir_trimmed(words) == [i \in 1..Len(words) |-> trim_leading_curdir(words[i])]

\* Evaluator::parse_rule_targets, for a before_term that has a colon
parse_rule_targets(before_term) ==
  [after |-> From(before_term, memchr(":", before_term) + 1),
   targets |-> curdir_trimmed(
                 word_scanner(SubSeq(before_term, 1, memchr(":", before_term) - 1))),
   is_pattern_rule |->
     \E i \in 1..Len(word_scanner(SubSeq(before_term, 1, memchr(":", before_term) - 1))) :
       is_pattern_rule(
         word_scanner(SubSeq(before_term, 1, memchr(":", before_term) - 1))[i])]

mixed_targets(targets) ==
  /\ \E i \in 1..Len(targets) : is_pattern_rule(targets[i])
  /\ \E i \in 1..Len(targets) : ~is_pattern_rule(targets[i])

\* Rule::new
Rule_new(loc, is_double_colon) ==
  [outputs |-> <<>>, inputs |-> <<>>, order_only_inputs |-> <<>>,
   output_patterns |-> <<>>, validations |-> <<>>,
   is_double_colon |-> is_double_colon, is_suffix_rule |-> FALSE,
   cmds |-> <<>>, loc |-> loc, cmd_loc |-> 0]

\* Rule::parse_inputs
RECURSIVE parse_inputs_from(_, _, _)
parse_inputs_from(rule, words, is_order_only) ==
  IF words = <<>> THEN rule
  ELSE IF words[1] = <<"|">> THEN parse_inputs_from(rule, Tail(words), TRUE)
  ELSE IF is_order_only
  THEN parse_inputs_from(
         [rule EXCEPT !.order_only_inputs = Append(@, trim_leading_curdir(words[1]))],
         Tail(words), TRUE)
  ELSE parse_inputs_from(
         [rule EXCEPT !.inputs = Append(@, trim_leading_curdir(words[1]))],
         Tail(words), FALSE)

parse_inputs(rule, inputs_str) == parse_inputs_from(rule, word_scanner(inputs_str), FALSE)

\* what evaluating a rule statement gives: the rule if there is one, the
\* target-specific assignments, the error
RuleResult(kind, rule, assigned, err) ==
  [kind |-> kind, rule |-> rule, assigned |-> assigned, err |-> err]

RuleError(msg) == RuleResult("error", Rule_new(0, FALSE), {}, msg)

\* a static pattern rule that keeps every target pattern it is given
static_pattern_any(rule, prereq_string) ==
  IF memchr(":", prereq_string) = 0
  THEN RuleResult("rule", parse_inputs(rule, prereq_string), {}, "")
  ELSE RuleResult("rule",
         parse_inputs(
           [rule EXCEPT !.output_patterns = @ \o
              curdir_trimmed(
                word_scanner(SubSeq(prereq_string, 1, memchr(":", prereq_string) - 1)))],
           From(prereq_string, memchr(":", prereq_string) + 1)),
         {}, "")

\* Rule::parse_prerequisites, once the command after a ";" is split off
static_pattern(rule, prereq_string) ==
  IF memchr(":", prereq_string) = 0
  THEN RuleResult("rule", parse_inputs(rule, prereq_string), {}, "")
  ELSE IF rule.output_patterns # <<>>
  THEN RuleError("*** mixed implicit and normal rules: deprecated syntax")
  ELSE IF rule.outputs = <<>> THEN RuleResult("rule", rule, {}, "")
  ELSE IF word_scanner(SubSeq(prereq_string, 1, memchr(":", prereq_string) - 1)) = <<>>
  THEN RuleError("*** missing target pattern.")
  ELSE IF Len(word_scanner(SubSeq(prereq_string, 1, memchr(":", prereq_string) - 1))) > 1
  THEN RuleError("*** multiple target patterns.")
  ELSE IF ~is_pattern_rule(
            word_scanner(SubSeq(prereq_string, 1, memchr(":", prereq_string) - 1))[1])
  THEN RuleError("*** target pattern contains no '%'.")
  ELSE RuleResult("rule",
         parse_inputs(
           [rule EXCEPT !.output_patterns =
              curdir_trimmed(
                word_scanner(SubSeq(prereq_string, 1, memchr(":", prereq_string) - 1)))],
           From(prereq_string, memchr(":", prereq_string) + 1)),
         {}, "")

\* Rule::parse_prerequisites; separator_pos is a position, 0 for None
parse_prerequisites(rule, line, separator_pos, sep) ==
  IF separator_pos # 0 /\ sep # "Semicolon"
  THEN static_pattern([rule EXCEPT !.cmds = Append(@, From(line, separator_pos + 1))],
                      SubSeq(line, 1, separator_pos - 1))
  ELSE static_pattern(rule, line)

\* memchr2
memchr2(a, b, s) ==
  IF memchr(a, s) = 0 THEN memchr(b, s)
  ELSE IF memchr(b, s) = 0 THEN memchr(a, s)
  ELSE IF memchr(a, s) < memchr(b, s) THEN memchr(a, s) ELSE memchr(b, s)

\* eval_rule: the position of the separator in after_targets, 0 for None
rule_separator_pos(after_targets, sep) ==
  IF memchr2("=", ";", after_targets) # 0 THEN memchr2("=", ";", after_targets)
  ELSE IF sep \in {"Eq", "FinalEq"} THEN Len(after_targets) + 1
  ELSE 0

rule_separator(after_targets, sep) ==
  IF memchr2("=", ";", after_targets) # 0
  THEN after_targets[memchr2("=", ";", after_targets)]
  ELSE IF sep \in {"Eq", "FinalEq"} THEN "=" ELSE "None"

\* eval_rule_specific_assign: the <<target, variable>> pairs it assigns
eval_rule_specific_assign(targets, after_targets, separator_pos) ==
  {<<targets[i], parse_assign_statement(after_targets, separator_pos).lhs>> :
     i \in 1..Len(targets)}

with_targets(rule, targets, is_pattern) ==
  IF is_pattern THEN [rule EXCEPT !.output_patterns = targets]
  ELSE [rule EXCEPT !.outputs = targets]

with_semicolon_cmd(res, stmt) ==
  IF res.kind = "rule" /\ stmt.sep = "Semicolon"
  THEN [res EXCEPT !.rule.cmds = Append(@, stmt.rhs)]
  ELSE res

\* eval_rule, after the targets are parsed
eval_rule_targets(stmt, targets, is_pattern, after) ==
  IF rule_separator(From(after, IF starts_with(after, <<":">>) THEN 2 ELSE 1), stmt.sep) = "="
     /\ rule_separator_pos(From(after, IF starts_with(after, <<":">>) THEN 2 ELSE 1),
                           stmt.sep) > 1
  THEN RuleResult("assign", Rule_new(0, FALSE),
         eval_rule_specific_assign(targets,
           From(after, IF starts_with(after, <<":">>) THEN 2 ELSE 1),
           rule_separator_pos(From(after, IF starts_with(after, <<":">>) THEN 2 ELSE 1),
                              stmt.sep)),
         "")
  ELSE IF rule_separator_pos(From(after, IF starts_with(after, <<":">>) THEN 2 ELSE 1),
                             stmt.sep) = 1
  THEN RuleError("*** empty variable name.")
  ELSE with_semicolon_cmd(
         parse_prerequisites(
           with_targets(Rule_new(stmt.loc, starts_with(after, <<":">>)), targets, is_pattern),
           From(after, IF starts_with(after, <<":">>) THEN 2 ELSE 1),
           rule_separator_pos(From(after, IF starts_with(after, <<":">>) THEN 2 ELSE 1),
                              stmt.sep),
           stmt.sep),
         stmt)

\* an eval_rule that lets a line without a colon pass
eval_rule_no_colon(stmt, vs) ==
  IF memchr(":", eval_to_buf(stmt.lhs, vs)) = 0
  THEN RuleResult("none", Rule_new(0, FALSE), {}, "")
  ELSE eval_rule_targets(stmt,
         parse_rule_targets(eval_to_buf(stmt.lhs, vs)).targets,
         parse_rule_targets(eval_to_buf(stmt.lhs, vs)).is_pattern_rule,
         parse_rule_targets(eval_to_buf(stmt.lhs, vs)).after)

\* eval_rule
eval_rule(stmt, vs) ==
  IF \A i \in 1..Len(eval_to_buf(stmt.lhs, vs)) :
       eval_to_buf(stmt.lhs, vs)[i] \in {" ", "\t", "\n", ";"}
  THEN IF stmt.sep = "Semicolon" THEN RuleError("*** missing rule before commands.")
       ELSE RuleResult("none", Rule_new(0, FALSE), {}, "")
  ELSE IF memchr(":", eval_to_buf(stmt.lhs, vs)) = 0
  THEN RuleError("*** missing separator.")
  ELSE IF mixed_targets(parse_rule_targets(eval_to_buf(stmt.lhs, vs)).targets)
  THEN RuleError("*** mixed implicit and normal rules: deprecated syntax")
  ELSE eval_rule_targets(stmt,
         parse_rule_targets(eval_to_buf(stmt.lhs, vs)).targets,
         parse_rule_targets(eval_to_buf(stmt.lhs, vs)).is_pattern_rule,
         parse_rule_targets(eval_to_buf(stmt.lhs, vs)).after)

\* a recipe pushed on the first rule instead
eval_command_first(rs, stmt) ==
  [rs EXCEPT ![1].cmds = Append(@, stmt.expr),
             ![1].cmd_loc = IF @ = 0 THEN stmt.loc ELSE @]

\* eval_command, when in_rule: the rules with the recipe pushed on the last
eval_command(rs, stmt) ==
  [rs EXCEPT ![Len(rs)].cmds = Append(@, stmt.expr),
             ![Len(rs)].cmd_loc = IF @ = 0 THEN stmt.loc ELSE @]

(***************************************************************************)
(* The makefiles: lines are read one at a time until the end of input.     *)
(***************************************************************************)
MaxLines == 5
MaxRuleLines == 3

\* conditionals, defines, and a rule with its recipe
CondLines ==
  {<<"i", "f", "d", "e", "f", " ", "A">>, <<"e", "l", "s", "e", " ", "i", "f", "d", "e", "f", " ", "B">>, <<"e", "l", "s", "e">>, <<"e", "n", "d", "i", "f">>,
   <<"d", "e", "f", "i", "n", "e", " ", "D">>, <<"e", "n", "d", "e", "f">>, <<"a", ":">>, <<"\t", "c">>}

\* rules, recipes, target-specific and global assignments
RuleLines ==
  {<<"a", ":">>, <<"b", ":", " ", "a">>, <<"\t", "c", " ", "#", " ", "d">>, <<"\t", "X", "=", "1">>, <<"\t", "#", " ", "c">>, <<"a", ":", " ", "X", "=", "1">>, <<"X", "=", "1">>,
   <<":", " ", "b">>, <<"$", "(", "E", ")", ":", " ", "b">>, <<"$", "(", "E", ")">>, <<"a">>, <<";", " ", "c">>,
   <<"i", "f", "d", "e", "f", " ", "X">>, <<"e", "n", "d", "i", "f">>,
   <<"%", ".", "o", ":", " ", "%", ".", "c">>, <<"a", ".", "o", " ", "b", ".", "o", ":", " ", "%", ".", "o", ":", " ", "%", ".", "c", " ", ";", " ", "c">>, <<"a", " ", "%", ":", " ", "b">>, <<"a", ":", " ", "b", " ", "c", ":", " ", "%", ".", "c">>, <<"a", ":", " ", "b", ":", " ", "c">>,
   <<":", " ", "%", ":", " ", "b">>, <<"a", ":", ":", " ", "b", " ", "|", " ", "c">>}

InitMk ==
  /\ FLAGS = DefaultFlags
  /\ parser = Parser_with_buf(<<>>, 0, FALSE)
  /\ if_open = <<>>
  /\ mk_pc = "parse"
  /\ eval_todo = <<>>
  /\ mk_rules = <<>> /\ in_rule = FALSE /\ ev_vars = <<>> /\ mk_rule_vars = {}
  /\ reparsed = <<>>
  /\ mk_err = ""
  /\ IdleRegen /\ IdleTree /\ IdleInner /\ IdleFind /\ IdleSym /\ IdleExp /\ IdleDep
  /\ IdleCmd /\ IdleRun

\* parse_line takes the line for a directive, or for a rule or an assignment
reads_directive(p, line) ==
  /\ p.define_name = None
  /\ line # <<>>
  /\ ~(starts_with(line, <<"\t">>) /\ p.after_rule)
  /\ ~starts_with(trim_left_space(line), <<"#">>)

\* the conditionals that are open after a line, given those open before it
still_open(opened, line, p) ==
  IF ~reads_directive(p, line) THEN opened
  ELSE IF get_directive(trim_left_space(line)) \in IfDirectives
  THEN Append(opened, [if_stack |-> p.if_stack, out_stmts |-> p.out_stmts])
  ELSE IF get_directive(trim_left_space(line)) = <<"e", "n", "d", "i", "f">> /\ opened # <<>>
  THEN SubSeq(opened, 1, Len(opened) - 1)
  ELSE opened

\* parse: the next line of the buffer is parsed
ParseNext(line, p) ==
  /\ parser' = p
  /\ if_open' = still_open(if_open, line, parser)
  /\ mk_err' = p.err
  /\ mk_pc' = IF p.err # "" THEN "done" ELSE "parse"
  /\ UNCHANGED <<eval_todo, mk_rules, in_rule, ev_vars, mk_rule_vars, reparsed>>
  /\ UNCHANGED notMk

ParseLine(lines, max) ==
  /\ mk_pc = "parse"
  /\ Len(parser.buf) < max
  /\ \E line \in lines :
       \E p \in {parse_step([parser EXCEPT !.buf = Append(@, line),
                                           !.l = Len(parser.buf) + 1], line)} :
         ParseNext(line, p)

ParseCondLine == ParseLine(CondLines, MaxLines)

ParseRuleLine == ParseLine(RuleLines, MaxRuleLines)

\* parse: the buffer has no more lines; parse_file returns
ParseReturn ==
  /\ mk_pc = "parse"
  /\ parser' = parse_end(parser)
  /\ mk_err' = parse_end(parser).err
  /\ mk_pc' = IF parse_end(parser).err # "" THEN "done" ELSE "eval"
  /\ eval_todo' = IF parse_end(parser).err # "" THEN <<>> ELSE parser.stmts[RootStmts]
  /\ UNCHANGED <<if_open, mk_rules, in_rule, ev_vars, mk_rule_vars, reparsed>>
  /\ UNCHANGED notMk

\* the evaluator takes the next statement
MkNext(kind) ==
  /\ mk_pc = "eval"
  /\ eval_todo # <<>>
  /\ Head(eval_todo).kind = kind

MkFail(msg) ==
  /\ mk_err' = msg
  /\ mk_pc' = "done"
  /\ eval_todo' = <<>>

MkEvalRuleResult(res) ==
  /\ IF res.err # "" THEN MkFail(res.err)
     ELSE /\ eval_todo' = Tail(eval_todo)
          /\ UNCHANGED <<mk_pc, mk_err>>
  /\ mk_rules' = IF res.kind = "rule" THEN Append(mk_rules, res.rule) ELSE mk_rules
  /\ in_rule' = (res.kind = "rule")
  /\ mk_rule_vars' = mk_rule_vars \cup res.assigned
  /\ UNCHANGED <<parser, if_open, ev_vars, reparsed>>
  /\ UNCHANGED notMk

\* Stmt::eval of a RuleStmt
MkEvalRule ==
  /\ MkNext("Rule")
  /\ \E res \in {eval_rule(Head(eval_todo), ev_vars)} : MkEvalRuleResult(res)

MkReparsed(p) ==
  /\ reparsed' = Append(reparsed, Head(eval_todo).orig)
  /\ IF p.err # "" THEN MkFail(p.err)
     ELSE /\ eval_todo' = p.stmts[RootStmts] \o Tail(eval_todo)
          /\ UNCHANGED <<mk_pc, mk_err>>
  /\ UNCHANGED <<parser, if_open, mk_rules, in_rule, ev_vars, mk_rule_vars>>
  /\ UNCHANGED notMk

\* Stmt::eval of a CommandStmt
MkEvalCommand ==
  /\ MkNext("Command")
  /\ IF ~in_rule
     THEN \E p \in {parse_buf_no_stats(Head(eval_todo).orig, Head(eval_todo).loc)} :
            MkReparsed(p)
     ELSE /\ mk_rules' = eval_command(mk_rules, Head(eval_todo))
          /\ eval_todo' = Tail(eval_todo)
          /\ UNCHANGED <<parser, if_open, mk_pc, in_rule, ev_vars, mk_rule_vars,
                         reparsed, mk_err>>
          /\ UNCHANGED notMk

\* Stmt::eval of an AssignStmt
MkEvalAssign ==
  /\ MkNext("Assign")
  /\ in_rule' = FALSE
  /\ ev_vars' = mk_eval_assign(Head(eval_todo), ev_vars)
  /\ eval_todo' = Tail(eval_todo)
  /\ UNCHANGED <<parser, if_open, mk_pc, mk_rules, mk_rule_vars, reparsed, mk_err>>
  /\ UNCHANGED notMk

\* Stmt::eval of an IfStmt: the statements of the branch are evaluated next
MkEvalIf ==
  /\ MkNext("If")
  /\ IF if_invalid(Head(eval_todo), ev_vars)
     THEN MkFail("*** invalid syntax in conditional.")
     ELSE /\ eval_todo' =
               parser.stmts[IF if_is_true(Head(eval_todo), ev_vars)
                            THEN true_stmts(Head(eval_todo).loc)
                            ELSE false_stmts(Head(eval_todo).loc)]
               \o Tail(eval_todo)
          /\ UNCHANGED <<mk_pc, mk_err>>
  /\ UNCHANGED <<parser, if_open, mk_rules, in_rule, ev_vars, mk_rule_vars, reparsed>>
  /\ UNCHANGED notMk

\* every statement is evaluated
MkEvalReturn ==
  /\ mk_pc = "eval"
  /\ eval_todo = <<>>
  /\ mk_pc' = "done"
  /\ UNCHANGED <<parser, if_open, eval_todo, mk_rules, in_rule, ev_vars, mk_rule_vars,
                 reparsed, mk_err>>
  /\ UNCHANGED notMk

\* parse_file alone
NextParse ==
  \/ ParseCondLine
  \/ ParseReturn

\* parse_file, then the evaluation of its statements
NextMk ==
  \/ ParseRuleLine
  \/ ParseReturn
  \/ MkEvalRule
  \/ MkEvalCommand
  \/ MkEvalAssign
  \/ MkEvalIf
  \/ MkEvalReturn

(***************************************************************************)
(* strutil.rs, dep.rs: a pattern matched against one target.               *)
(***************************************************************************)
\* The longest pattern and the longest target
MaxPat == 3
MaxStr == 3

\* The byte strings of up to n bytes over the alphabet
RECURSIVE StrsUpTo(_, _)
StrsUpTo(alphabet, n) ==
  IF n = 0 THEN {<<>>}
  ELSE StrsUpTo(alphabet, n - 1)
         \cup {Append(s, c) : s \in StrsUpTo(alphabet, n - 1), c \in alphabet}

\* The output patterns of pattern rules: is_pattern_rule found a %
PatternPool == {p \in StrsUpTo({"a", ".", "%"}, MaxPat) : percent_index(p) # 0}

TargetPool == StrsUpTo({"a", "."}, MaxStr) \ {<<>>}

\* Pattern::stem
stem(pat, str) ==
  IF ~matches(pat, str) THEN <<>>
  ELSE IF percent_index(pat) # 0
  THEN IF Len(str) + 1 < Len(pat) THEN Panic
       ELSE SubSeq(str, percent_index(pat), Len(str) - Len(pat) + percent_index(pat))
  ELSE <<>>

\* The implicit rule pat: without prerequisites, and the trie it alone is in
PatternRule(pat) == Rule(<<>>, <<pat>>, <<>>, <<>>, <<>>)

TrieOf(pat) == populate_implicit_rule(DepBuilder0, PatternRule(pat), 1).implicit_rules

InitMatch ==
  /\ FLAGS = DefaultFlags
  /\ \E pat \in PatternPool, str \in TargetPool : pf_in = [pat |-> pat, str |-> str]
  /\ pf_out = <<>>
  /\ IdleEval /\ IdleRun
  /\ IdleRegen /\ IdleTree /\ IdleInner /\ IdleFind /\ IdleSym /\ IdleExp /\ IdleDep
  /\ IdleMk

Returned(op, ret) ==
  /\ pf_out = <<>>
  /\ pf_out' = [op |-> op, ret |-> ret]
  /\ UNCHANGED <<pf_in, varsEval>>
  /\ UNCHANGED notCmd

\* Pattern::matches
ApplyMatches == Returned("matches", matches(pf_in.pat, pf_in.str))

\* Pattern::stem
ApplyStem == Returned("stem", stem(pf_in.pat, pf_in.str))

\* RuleTrie::get on the trie that holds the rule: whether it returns the rule
ApplyTrieGet == Returned("get", RuleTrie_get(TrieOf(pf_in.pat), pf_in.str, 0) # <<>>)

\* can_pick_implicit_rule: whether it picks the rule for the target
ApplyCanPick ==
  Returned("pick",
           can_pick_implicit_rule(<<>>, PatternRule(pf_in.pat), pf_in.str, 0).rule # NoRule)

NextMatch == ApplyMatches \/ ApplyStem \/ ApplyTrieGet \/ ApplyCanPick

(***************************************************************************)
(* strutil.rs, func.rs, expr.rs: one word substituted under a pattern.     *)
(***************************************************************************)
\* The replacements: with and without a %
SubstPool == {<<"%">>, <<"%", ".">>, <<"a">>}

\* The loop of patsubst_func over the words of the text
RECURSIVE patsubst_words(_, _, _)
patsubst_words(pat, repl, toks) ==
  IF toks = <<>> THEN <<>>
  ELSE <<append_subst(pat, Head(toks), repl)>> \o patsubst_words(pat, repl, Tail(toks))

\* The words written by a loop that a panic did not end
written(rs) == IF \E i \in 1..Len(rs) : rs[i] = Panic THEN Panic ELSE join_words(rs)

\* patsubst_func
patsubst_func(pat_str, repl, s) == written(patsubst_words(pat_str, repl, word_scanner(s)))

\* Value::eval for VarSubst, from the value of the variable on
eval_var_subst(pat, subst, value) == written(subst_words(pat, subst, word_scanner(value)))

InitSubst ==
  /\ FLAGS = DefaultFlags
  /\ \E pat \in PatternPool, str \in TargetPool, subst \in SubstPool :
       pf_in = [pat |-> pat, str |-> str, subst |-> subst]
  /\ pf_out = <<>>
  /\ IdleEval /\ IdleRun
  /\ IdleRegen /\ IdleTree /\ IdleInner /\ IdleFind /\ IdleSym /\ IdleExp /\ IdleDep
  /\ IdleMk

\* $(patsubst pat,subst,str)
ApplyPatsubst == Returned("patsubst", patsubst_func(pf_in.pat, pf_in.subst, pf_in.str))

\* $(V:pat=subst) where the value of V is str
ApplyVarSubst == Returned("subst_ref", eval_var_subst(pf_in.pat, pf_in.subst, pf_in.str))

NextSubst == ApplyPatsubst \/ ApplyVarSubst \/ ApplyStem

(***************************************************************************)
(* dep.rs: is_suffix_rule applied to one target.                           *)
(***************************************************************************)
\* The longest target
MaxTarget == 4

SuffixTargetPool == StrsUpTo({".", "c", "o"}, MaxTarget) \ {<<>>}

InitSuffix ==
  /\ FLAGS = DefaultFlags
  /\ \E output \in SuffixTargetPool : pf_in = [output |-> output]
  /\ pf_out = <<>>
  /\ IdleEval /\ IdleRun
  /\ IdleRegen /\ IdleTree /\ IdleInner /\ IdleFind /\ IdleSym /\ IdleExp /\ IdleDep
  /\ IdleMk

\* is_special_target
ApplyIsSpecialTarget == Returned("is_special_target", is_special_target(pf_in.output))

\* is_suffix_rule
ApplyIsSuffixRule == Returned("is_suffix_rule", is_suffix_rule(pf_in.output))

NextSuffix == ApplyIsSpecialTarget \/ ApplyIsSuffixRule

(***************************************************************************)
(* command.rs, func.rs: the recipes of the targets are evaluated, one      *)
(* target after the other, by one CommandEvaluator.  A recipe line is a    *)
(* List of literals, of calls of info, warning and error with a literal    *)
(* argument, and of references to the automatic variable $?.               *)
(***************************************************************************)
\* Loc and its Display
Loc(filename, line) == [filename |-> filename, line |-> line]

RECURSIVE i32_to_string(_)
i32_to_string(n) ==
  IF n < 10 THEN <<<<"0", "1", "2", "3", "4", "5", "6", "7", "8", "9">>[n + 1]>>
  ELSE i32_to_string(n \div 10) \o i32_to_string(n % 10)

Loc_to_string(loc) == loc.filename \o <<":">> \o i32_to_string(loc.line)

\* echo_escape
RECURSIVE echo_escape(_)
echo_escape(s) ==
  IF s = <<>> THEN <<>>
  ELSE (CASE s[1] = "\\" -> <<"\\", "\\", "\\", "\\">>
          [] s[1] = "\n" -> <<"\\", "n">>
          [] s[1] = "\"" -> <<"\\", "\"">>
          [] OTHER -> <<s[1]>>)
         \o echo_escape(Tail(s))

\* info_func, warning_func and error_func on the evaluator state
\* st: [out, queue, found, err]; without avoid_io info prints to stdout,
\* warning to stderr, and error fails
info_func(args, st, aio) ==
  IF aio
  THEN [st EXCEPT !.queue = Append(@, <<"e", "c", "h", "o", " ", "-", "e", " ", "\"">> \o echo_escape(eval_literal(args[1])) \o <<"\"">>)]
  ELSE st

warning_func(args, st, aio, loc) ==
  IF aio
  THEN [st EXCEPT !.queue =
          Append(@, <<"e", "c", "h", "o", " ", "-", "e", " ", "\"">> \o Loc_to_string(loc) \o <<":", " ">> \o echo_escape(eval_literal(args[1]))
                      \o <<"\"", " ", "2", ">", "&", "1">>)]
  ELSE st

error_func(args, st, aio, loc) ==
  IF aio
  THEN [st EXCEPT !.queue =
          Append(@, <<"e", "c", "h", "o", " ", "-", "e", " ", "\"">> \o Loc_to_string(loc) \o <<":", " ", "*", "*", "*", " ">>
                      \o echo_escape(eval_literal(args[1])) \o <<".", "\"", " ", "2", ">", "&", "1", " ", "&", "&", " ", "f", "a", "l", "s", "e">>)]
  ELSE [st EXCEPT !.err = <<"*", "*", "*", " ">> \o eval_literal(args[1]) \o <<".">>]

\* The words a loop with a HashSet seen writes: each symbol once, in order
RECURSIVE unseen(_, _)
unseen(syms, seen) ==
  IF syms = <<>> THEN <<>>
  ELSE IF Head(syms) \in seen THEN unseen(Tail(syms), seen)
  ELSE <<Head(syms)>> \o unseen(Tail(syms), seen \cup {Head(syms)})

\* AutoCommandVar::eval_impl for $?; node.newer are the inputs whose
\* timestamp is after the target's
auto_question(st, aio, node) ==
  IF aio
  THEN IF ~st.found
       THEN [st EXCEPT
               !.out = @ \o <<"$", "{", "K", "A", "T", "I", "_", "N", "E", "W", "_", "I", "N", "P", "U", "T", "S", "}">>,
               !.queue =
                 Append(@, join_words(<<<<"K", "A", "T", "I", "_", "N", "E", "W", "_", "I", "N", "P", "U", "T", "S", "=", "$", "(", "f", "i", "n", "d">>>>
                                        \o unseen(node.actual_inputs, {})
                                        \o <<<<"$", "(", "t", "e", "s", "t", " ", "-", "e">>, node.output,
                                             <<"&", "&", " ", "e", "c", "h", "o", " ", "-", "n", "e", "w", "e", "r">>, node.output,
                                             <<")", ")", " ", "&", "&", " ", "e", "x", "p", "o", "r", "t", " ", "K", "A", "T", "I", "_", "N", "E", "W", "_", "I", "N", "P", "U", "T", "S">>>>)),
               !.found = TRUE]
       ELSE [st EXCEPT !.out = @ \o <<"$", "{", "K", "A", "T", "I", "_", "N", "E", "W", "_", "I", "N", "P", "U", "T", "S", "}">>]
  ELSE [st EXCEPT
          !.out = @ \o join_words(SelectSeq(unseen(node.actual_inputs, {}),
                                            LAMBDA ai : ai \in node.newer))]

\* Value::eval of one part of a recipe line
eval_part(part, st, aio, loc, node) ==
  CASE part.t = "Literal" -> [st EXCEPT !.out = @ \o part.lit]
    [] part.t = "Func" /\ part.fi = "info" -> info_func(part.args, st, aio)
    [] part.t = "Func" /\ part.fi = "warning" -> warning_func(part.args, st, aio, loc)
    [] part.t = "Func" /\ part.fi = "error" -> error_func(part.args, st, aio, loc)
    [] part.t = "SymRef" -> auto_question(st, aio, node)

\* Value::eval_to_buf of a recipe line: the parts in order, up to an error
RECURSIVE eval_parts(_, _, _, _, _)
eval_parts(parts, st, aio, loc, node) ==
  IF parts = <<>> \/ st.err # <<>> THEN st
  ELSE eval_parts(Tail(parts), eval_part(Head(parts), st, aio, loc, node), aio, loc, node)

\* parse_command_prefixes: [rest, echo, ignore_error]
RECURSIVE command_prefixes(_, _, _)
command_prefixes(s, echo, ignore_error) ==
  IF s = <<>> THEN [rest |-> s, echo |-> echo, ignore_error |-> ignore_error]
  ELSE CASE s[1] = "@" -> command_prefixes(trim_left_space(Tail(s)), FALSE, ignore_error)
         [] s[1] = "-" -> command_prefixes(trim_left_space(Tail(s)), echo, TRUE)
         [] s[1] = "+" -> command_prefixes(trim_left_space(Tail(s)), echo, ignore_error)
         [] OTHER -> [rest |-> s, echo |-> echo, ignore_error |-> ignore_error]

parse_command_prefixes(cmds, echo, ignore_error) ==
  command_prefixes(trim_left_space(cmds), echo, ignore_error)

\* find_end_of_line: [line, rest]; e is the position the scan has reached
RECURSIVE end_of_line_from(_, _)
end_of_line_from(buf, e) ==
  IF e > Len(buf) THEN [line |-> buf, rest |-> <<>>]
  ELSE IF buf[e] = "\\"
  THEN IF starts_with(From(buf, e), <<"\\", "\n">>) THEN end_of_line_from(buf, e + 2)
       ELSE IF starts_with(From(buf, e), <<"\\", "\r", "\n">>)
       THEN end_of_line_from(buf, e + 3)
       ELSE IF starts_with(From(buf, e), <<"\\", "\\">>) THEN end_of_line_from(buf, e + 2)
       ELSE end_of_line_from(buf, e + 1)
  ELSE IF buf[e] = "\n"
  THEN [line |-> SubSeq(buf, 1, e - 1), rest |-> SubSeq(buf, e + 1, Len(buf))]
  ELSE end_of_line_from(buf, e + 1)

find_end_of_line(buf) == end_of_line_from(buf, 1)

\* Command
Command(output, cmd, echo, ignore_error, force_no_subshell) ==
  [output |-> output, cmd |-> cmd, echo |-> echo, ignore_error |-> ignore_error,
   force_no_subshell |-> force_no_subshell]

\* CommandEvaluator::eval: the loop over the lines of one evaluated recipe
\* line, appending to result
RECURSIVE eval_lines(_, _, _, _)
eval_lines(cmds, global, output, result) ==
  IF cmds = <<>> THEN result
  ELSE eval_lines(
         find_end_of_line(cmds).rest, global, output,
         IF parse_command_prefixes(trim_left_space(find_end_of_line(cmds).line),
                                   global.echo, global.ignore_error).rest # <<>>
         THEN Append(result,
                     Command(output,
                             parse_command_prefixes(
                               trim_left_space(find_end_of_line(cmds).line),
                               global.echo, global.ignore_error).rest,
                             parse_command_prefixes(
                               trim_left_space(find_end_of_line(cmds).line),
                               global.echo, global.ignore_error).echo,
                             parse_command_prefixes(
                               trim_left_space(find_end_of_line(cmds).line),
                               global.echo, global.ignore_error).ignore_error,
                             FALSE))
         ELSE result)

\* CommandEvaluator::eval: the body of the loop over node_cmds, for the
\* evaluated recipe line cmds_buf
eval_cmds_buf(cmds_buf, output, result) ==
  eval_lines(parse_command_prefixes(cmds_buf, ~FLAGS.is_silent_mode, FALSE).rest,
             parse_command_prefixes(cmds_buf, ~FLAGS.is_silent_mode, FALSE),
             output, result)

\* CommandEvaluator::eval: the delayed output commands as Commands
output_commands(queue, output) ==
  [i \in 1..Len(queue) |-> Command(output, queue[i], FALSE, FALSE, TRUE)]

\* eval that puts the delayed output commands after the recipe's
eval_return_appended(result, queue, output) ==
  IF queue # <<>>
  THEN [result |-> result \o output_commands(queue, output), queue |-> <<>>]
  ELSE [result |-> result, queue |-> queue]

\* eval that leaves the queue as it is
eval_return_uncleared(result, queue, output) ==
  IF queue # <<>>
  THEN [result |-> output_commands(queue, output) \o result, queue |-> queue]
  ELSE [result |-> result, queue |-> queue]

\* CommandEvaluator::eval: what it returns and what it leaves in the queue
eval_return(result, queue, output) ==
  IF queue # <<>>
  THEN [result |-> output_commands(queue, output) \o result, queue |-> <<>>]
  ELSE [result |-> result, queue |-> queue]

\* The longest recipe
MaxRecipe == 2

\* The recipe lines: c / $(info m) / @$(info n)d / $(warning w)c<LF>-d /
\* $(error e) / e $? $?
RecipePool ==
  { [v |-> List(<<Literal(<<"c">>)>>), loc |-> Loc(<<"M">>, 2)],
    [v |-> List(<<Func("info", <<Literal(<<"m", "\"", "m">>)>>)>>), loc |-> Loc(<<"M">>, 3)],
    [v |-> List(<<Literal(<<"@">>), Func("info", <<Literal(<<"n">>)>>), Literal(<<"d">>)>>),
     loc |-> Loc(<<"M">>, 4)],
    [v |-> List(<<Func("warning", <<Literal(<<"w">>)>>), Literal(<<"c", "\n", "-", "d">>)>>),
     loc |-> Loc(<<"M">>, 15)],
    [v |-> List(<<Func("error", <<Literal(<<"e">>)>>)>>), loc |-> Loc(<<"M">>, 6)],
    [v |-> List(<<Literal(<<"e", " ">>), SymRef("?"), Literal(<<" ">>), SymRef("?")>>),
     loc |-> Loc(<<"M">>, 7)] }

RECURSIVE Recipes(_)
Recipes(n) ==
  IF n = 0 THEN {<<>>}
  ELSE Recipes(n - 1) \cup {Append(r, c) : r \in Recipes(n - 1), c \in RecipePool}

\* The DepNodes eval is called with: the fields it reads
NodePool ==
  { [output |-> output, loc |-> Loc(<<"M">>, 1), cmds |-> cmds,
     actual_inputs |-> <<<<"x">>, <<"y">>, <<"x">>>>, newer |-> {<<"y">>}] :
      output \in {<<"a">>, <<"b">>}, cmds \in Recipes(MaxRecipe) }

\* Evaluator.avoid_io when recipes are evaluated: false as Evaluator::new
\* leaves it for the executor, true while recipes are translated for Ninja
AvoidIo == BOOLEAN

InitCmd ==
  /\ FLAGS \in {DefaultFlags, [DefaultFlags EXCEPT !.is_silent_mode = TRUE]}
  /\ avoid_io \in AvoidIo
  /\ delayed_output_commands = <<>>
  /\ ce_node = <<>>
  /\ found_new_inputs = FALSE
  /\ ce_todo = <<>>
  /\ ce_result = <<>>
  /\ ce_pc = "ready"
  /\ pf_in = <<>> /\ pf_out = <<>>
  /\ IdleRegen /\ IdleTree /\ IdleInner /\ IdleFind /\ IdleSym /\ IdleExp /\ IdleDep
  /\ IdleMk /\ IdleRun

\* CommandEvaluator::eval, up to the loop over the recipe
CmdEvalBegin ==
  /\ ce_pc = "ready"
  /\ \E n \in NodePool :
       /\ ce_node' = n
       /\ ce_todo' = n.cmds
  /\ found_new_inputs' = FALSE
  /\ ce_result' = <<>>
  /\ ce_pc' = "cmds"
  /\ UNCHANGED <<pf_in, pf_out, avoid_io, delayed_output_commands>>
  /\ UNCHANGED notCmd

\* The evaluator after Value::eval_to_buf of the recipe line
Evaluated(cmd) ==
  eval_parts(cmd.v.vec,
             [out |-> <<>>, queue |-> delayed_output_commands,
              found |-> found_new_inputs, err |-> <<>>],
             avoid_io, cmd.loc, ce_node)

CmdEvalLineTo(st) ==
  /\ delayed_output_commands' = st.queue
  /\ found_new_inputs' = st.found
  /\ IF st.err # <<>>
     THEN ce_pc' = "failed" /\ UNCHANGED <<ce_todo, ce_result>>
     ELSE /\ ce_todo' = Tail(ce_todo)
          /\ ce_result' = eval_cmds_buf(st.out, ce_node.output, ce_result)
          /\ UNCHANGED ce_pc
  /\ UNCHANGED <<pf_in, pf_out, avoid_io, ce_node>>
  /\ UNCHANGED notCmd

\* CommandEvaluator::eval: one turn of the loop over the recipe
CmdEvalLine ==
  /\ ce_pc = "cmds" /\ ce_todo # <<>>
  /\ CmdEvalLineTo(Evaluated(Head(ce_todo)))

\* CommandEvaluator::eval, after the loop
CmdEvalReturn ==
  /\ ce_pc = "cmds" /\ ce_todo = <<>>
  /\ ce_result' = eval_return(ce_result, delayed_output_commands, ce_node.output).result
  /\ delayed_output_commands' =
       eval_return(ce_result, delayed_output_commands, ce_node.output).queue
  /\ ce_pc' = "ready"
  /\ UNCHANGED <<pf_in, pf_out, avoid_io, ce_node, found_new_inputs, ce_todo>>
  /\ UNCHANGED notCmd

NextCmd == CmdEvalBegin \/ CmdEvalLine \/ CmdEvalReturn

(***************************************************************************)
(* func.rs, symtab.rs: $(call f,a1,...,ak).  The body of a function is any *)
(* sequence of further calls; a call in progress is an item of work that   *)
(* holds the arguments av and the scoped variables sv of call_func; the    *)
(* evaluation of a function has resumed when a call in it returned.  The   *)
(* makefile has bound 3 := x before.                                       *)
(***************************************************************************)
\* The calls in progress, the arguments of a call, and the positional
\* variables that the symbol table holds
MaxCallDepth == 2
MaxArgs == 3
MaxPos == 3

\* intern(format!("{i}"))
tmpvar_name_sym(i) == i32_to_string(i)

PosSyms == {tmpvar_name_sym(i) : i \in 1..MaxPos}

\* Variable::with_simple_string and Variable::new_simple
with_simple_string(bytes, origin) == Variable(origin, "Simple", bytes, FALSE)

new_simple(origin) == Variable(origin, "Simple", <<>>, FALSE)

\* Symbol::peek_global_var, and lookup_var where no scope is open
peek_global_var(sd, sym) == IF sym \in DOMAIN sd THEN sd[sym] ELSE NoVar

\* ScopedGlobalVar::new: the table, and the ScopedGlobalVar
ScopedGlobalVar_new(sd, sym, var) ==
  [sd |-> [s \in DOMAIN sd \cup {sym} |-> IF s = sym THEN var ELSE sd[s]],
   scoped |-> [sym |-> sym, orig |-> peek_global_var(sd, sym)]]

\* Drop for ScopedGlobalVar that forgets orig
ScopedGlobalVar_drop_forgetful(sd, scoped) == sd

\* Drop for ScopedGlobalVar
ScopedGlobalVar_drop(sd, scoped) == [sd EXCEPT ![scoped.sym] = scoped.orig]

\* The loop of call_func from i on: the table and sv
RECURSIVE bind_args(_, _, _, _)
bind_args(sd, av, sv, i) ==
  IF i <= Len(av)
  THEN bind_args(ScopedGlobalVar_new(sd, tmpvar_name_sym(i), av[i]).sd, av,
                 Append(sv, ScopedGlobalVar_new(sd, tmpvar_name_sym(i), av[i]).scoped),
                 i + 1)
  ELSE IF peek_global_var(sd, tmpvar_name_sym(i)) = NoVar THEN [sd |-> sd, sv |-> sv]
  ELSE IF peek_global_var(sd, tmpvar_name_sym(i)).origin # "Automatic"
  THEN [sd |-> sd, sv |-> sv]
  ELSE bind_args(ScopedGlobalVar_new(sd, tmpvar_name_sym(i), new_simple("Automatic")).sd,
                 av,
                 Append(sv, ScopedGlobalVar_new(sd, tmpvar_name_sym(i),
                                                new_simple("Automatic")).scoped),
                 i + 1)

\* The elements of the vector sv are dropped from the first on
RECURSIVE drop_vec(_, _)
drop_vec(sd, sv) ==
  IF sv = <<>> THEN sd ELSE drop_vec(ScopedGlobalVar_drop(sd, Head(sv)), Tail(sv))

\* The values of the arguments of a call
ArgPool == UNION {[1..n -> {<<"a">>, <<"b">>}] : n \in 0..MaxArgs}

\* The table after the makefile: 3 := x
PosMakefile ==
  [s \in PosSyms |-> IF s = tmpvar_name_sym(3) THEN Simple(<<"x">>) ELSE NoVar]

InitCall ==
  /\ symbol_data = PosMakefile
  /\ sv_stack = <<>> /\ ev_phase = "file" /\ ev_error = "" /\ stmt_count = 0
  /\ exp_pc = "idle" /\ work = <<>> /\ bufs = <<>> /\ symbols_for_eval = {}
  /\ eval_depth = 1
  /\ FLAGS = DefaultFlags
  /\ IdleRegen /\ IdleTree /\ IdleInner /\ IdleFind /\ IdleDep /\ IdleMk /\ IdleCmd /\ IdleRun

\* The item of work of a call
CallItem(av, sv) == [k |-> "call_func", av |-> av, sv |-> sv]

\* call_func on the evaluated arguments, up to the evaluation of the function
CallEnterWith(args, bound) ==
  /\ symbol_data' = bound.sd
  /\ work' = Append(work, CallItem([i \in 1..Len(args) |->
                                       with_simple_string(args[i], "Automatic")],
                                   bound.sv))
  /\ eval_depth' = eval_depth - 1
  /\ exp_pc' = "running"

CallEnter ==
  /\ UNCHANGED notAssign
  /\ exp_pc \in {"idle", "running", "resumed"} /\ ev_error = ""
  /\ Len(work) < MaxCallDepth
  /\ \E args \in ArgPool :
       CallEnterWith(args,
                     bind_args(symbol_data,
                               [i \in 1..Len(args) |->
                                  with_simple_string(args[i], "Automatic")],
                               <<>>, 1))
  /\ UNCHANGED <<sv_stack, ev_phase, ev_error, stmt_count, bufs, symbols_for_eval>>

\* The evaluation of the function fails
CallBodyFails ==
  /\ UNCHANGED notAssign
  /\ exp_pc \in {"running", "resumed"} /\ ev_error = "" /\ work # <<>>
  /\ ev_error' = "error"
  /\ UNCHANGED <<symbol_data, work, eval_depth, exp_pc>>
  /\ UNCHANGED <<sv_stack, ev_phase, stmt_count, bufs, symbols_for_eval>>

\* call_func returns, with the value or with the error: sv is dropped
CallLeave ==
  /\ UNCHANGED notAssign
  /\ exp_pc \in {"running", "resumed"} /\ work # <<>>
  /\ symbol_data' = drop_vec(symbol_data, work[Len(work)].sv)
  /\ work' = SubSeq(work, 1, Len(work) - 1)
  /\ eval_depth' = IF ev_error = "" THEN eval_depth + 1 ELSE eval_depth
  /\ exp_pc' = IF Len(work) > 1 THEN "resumed" ELSE "done"
  /\ UNCHANGED <<sv_stack, ev_phase, ev_error, stmt_count, bufs, symbols_for_eval>>

\* The next expansion of the makefile
CallNext ==
  /\ UNCHANGED notAssign
  /\ exp_pc = "done" /\ ev_error = ""
  /\ exp_pc' = "idle"
  /\ UNCHANGED <<symbol_data, work, eval_depth>>
  /\ UNCHANGED <<sv_stack, ev_phase, ev_error, stmt_count, bufs, symbols_for_eval>>

NextCall == CallEnter \/ CallBodyFails \/ CallLeave \/ CallNext

(***************************************************************************)
(* symtab.rs: interning.  In this part a byte is its value, a byte string  *)
(* a sequence of values, a Symbol the value of its NonZeroUsize; a vector  *)
(* is a function from 0 on.                                                *)
(***************************************************************************)
\* The calls of intern, and the length of the strings interned
MaxInterns == 3
MaxInternLen == 2

\* The greatest byte
U8_MAX == 255

\* The state of a Symtab
Symtab(syms, tab) == [symbols |-> syms, symtab |-> tab]

\* What intern answers: the state and Symbol(NonZeroUsize::new(n).unwrap()),
\* where the unwrap of None panics
Interned(st, n) == [st |-> st, sym |-> n, panicked |-> n = 0]

\* Vec::push
push(vec, x) == [i \in 0..Cardinality(DOMAIN vec) |-> IF i \in DOMAIN vec THEN vec[i] ELSE x]

\* Symtab::intern
Symtab_intern(st, s) ==
  IF Len(s) = 1 THEN Interned(st, s[1])
  ELSE IF s \in DOMAIN st.symtab THEN Interned(st, st.symtab[s])
  ELSE Interned(Symtab(push(st.symbols, s),
                       insert(st.symtab, s, Cardinality(DOMAIN st.symbols))),
                Cardinality(DOMAIN st.symbols))

\* .SHELLSTATUS, .VARIABLES and .KATI_SYMBOLS
ShellStatusName == <<46, 83, 72, 69, 76, 76, 83, 84, 65, 84, 85, 83>>
VariablesName == <<46, 86, 65, 82, 73, 65, 66, 76, 69, 83>>
KatiSymbolsName == <<46, 75, 65, 84, 73, 95, 83, 89, 77, 66, 79, 76, 83>>

\* Symtab::new: the strings of one byte, then the three names
Symtab_new ==
  Symtab_intern(
    Symtab_intern(
      Symtab_intern(Symtab([i \in 0..U8_MAX |-> IF i = 0 THEN <<>> ELSE <<i>>],
                           [s \in {<<i>> : i \in 1..U8_MAX} |-> s[1]]),
                    ShellStatusName).st,
      VariablesName).st,
    KatiSymbolsName).st

\* The byte strings interned: of the bytes 0 and a
InternPool == StrsUpTo({0, 97}, MaxInternLen)

InitIntern ==
  /\ symbols = Symtab_new.symbols
  /\ symtab = Symtab_new.symtab
  /\ interned = <<>>
  /\ intern_pc = "ready"
  /\ FLAGS = DefaultFlags
  /\ IdleRegen /\ IdleTree /\ IdleInner /\ IdleFind /\ IdleSym /\ IdleExp /\ IdleDep
  /\ IdleMk /\ IdleCmd /\ IdleExec

\* intern(s) answered r, or panicked
InternAnswers(s, r) ==
  /\ symbols' = r.st.symbols
  /\ symtab' = r.st.symtab
  /\ interned' = Append(interned, [s |-> s, sym |-> r.sym, panicked |-> r.panicked])
  /\ intern_pc' = IF r.panicked THEN "panicked" ELSE "ready"

\* intern
Intern ==
  /\ UNCHANGED notSymtab
  /\ intern_pc = "ready" /\ Len(interned) < MaxInterns
  /\ \E s \in InternPool : InternAnswers(s, Symtab_intern(Symtab(symbols, symtab), s))

NextIntern == Intern

(***************************************************************************)
(* exec.rs: direct execution.  A DepNode is named by its output; a         *)
(* timestamp is a positive number and None is 0.  Every command succeeds;  *)
(* it may write the output of its node, which then is newer than every     *)
(* file there was.                                                         *)
(***************************************************************************)
\* The newest timestamp a file has before the execution
MaxTs == 2

\* ExecStatus
Processing == [k |-> "Processing", ts |-> 0]

Timestamp(ts) == [k |-> "Timestamp", ts |-> ts]

\* ExecStatus::partial_cmp
partial_cmp(a, b) ==
  IF a.k = "Processing" /\ b.k = "Processing" THEN "Equal"
  ELSE IF a.k = "Processing" /\ b.k = "Timestamp" /\ b.ts # 0 THEN "Less"
  ELSE IF a.k = "Timestamp" /\ a.ts = 0 /\ b.k = "Timestamp" /\ b.ts = 0 THEN "Equal"
  ELSE IF a.k = "Timestamp" /\ a.ts = 0 THEN "Less"
  ELSE IF b.k = "Timestamp" /\ b.ts = 0 THEN "Greater"
  ELSE IF a.k = "Timestamp" /\ b.k = "Timestamp"
  THEN (IF a.ts < b.ts THEN "Less" ELSE IF a.ts = b.ts THEN "Equal" ELSE "Greater")
  ELSE "Greater"

\* latest < ts and output_ts >= latest
status_lt(a, b) == partial_cmp(a, b) = "Less"

status_ge(a, b) == partial_cmp(a, b) \in {"Greater", "Equal"}

\* The fields of a DepNode that exec_node reads
ExecDepNode(has_rule, is_phony, order_onlys, deps, cmds) ==
  [has_rule |-> has_rule, is_phony |-> is_phony, order_onlys |-> order_onlys,
   deps |-> deps, cmds |-> cmds]

OutT == <<"T">>
OutP == <<"p">>
OutQ == <<"q">>
Outs == {OutT, OutP, OutQ}

ExecPlan(t, p, q) == [o \in Outs |-> IF o = OutT THEN t ELSE IF o = OutP THEN p ELSE q]

Touch == << <<"t", "o", "u", "c", "h">> >>

\* T: p / p: q | T: p q / p: q / q: | T: p / p: T | T: | p / .PHONY: p / p: q
ExecPlanPool ==
  { ExecPlan(ExecDepNode(TRUE, FALSE, <<>>, <<OutP>>, Touch),
         ExecDepNode(TRUE, FALSE, <<>>, <<OutQ>>, Touch),
         ExecDepNode(FALSE, FALSE, <<>>, <<>>, <<>>)),
    ExecPlan(ExecDepNode(TRUE, FALSE, <<>>, <<OutP, OutQ>>, Touch),
         ExecDepNode(TRUE, FALSE, <<>>, <<OutQ>>, Touch),
         ExecDepNode(TRUE, FALSE, <<>>, <<>>, Touch)),
    ExecPlan(ExecDepNode(TRUE, FALSE, <<>>, <<OutP>>, Touch),
         ExecDepNode(TRUE, FALSE, <<>>, <<OutT>>, Touch),
         ExecDepNode(FALSE, FALSE, <<>>, <<>>, <<>>)),
    ExecPlan(ExecDepNode(TRUE, FALSE, <<OutP>>, <<>>, Touch),
         ExecDepNode(TRUE, TRUE, <<>>, <<OutQ>>, Touch),
         ExecDepNode(FALSE, FALSE, <<>>, <<>>, <<>>)) }

RootsPool == { <<OutT>>, <<OutP, OutT>> }

\* Executor::new, and the roots handed to exec
InitExec ==
  /\ exec_nodes \in ExecPlanPool
  /\ exec_roots \in RootsPool
  /\ exec_files \in [Outs -> 0..MaxTs]
  /\ exec_done = <<>>
  /\ exec_stack = <<>>
  /\ exec_root_i = 1
  /\ exec_ran = <<>> /\ exec_stderr = <<>> /\ exec_stdout = <<>>
  /\ exec_pc = "running"
  /\ FLAGS = DefaultFlags
  /\ IdleRegen /\ IdleTree /\ IdleInner /\ IdleFind /\ IdleSym /\ IdleExp /\ IdleDep
  /\ IdleMk /\ IdleCmd /\ IdleSymtab

\* done.get that forgets the nodes that are finished
Executor_done_get_processing(d, output) ==
  IF output \in DOMAIN d /\ d[output] = Processing
  THEN [found |-> TRUE, status |-> d[output]]
  ELSE [found |-> FALSE, status |-> Processing]

\* self.done.get(&output)
Executor_done_get(d, output) ==
  IF output \in DOMAIN d THEN [found |-> TRUE, status |-> d[output]]
  ELSE [found |-> FALSE, status |-> Processing]

\* get_timestamp and std::fs::exists
get_timestamp(fls, output) == fls[output]

fs_exists(fls, output) == fls[output] # 0

\* The call of exec_node that has not returned
ExecFrame(n, needed_by, output_ts) ==
  [n |-> n, needed_by |-> needed_by, output_ts |-> output_ts, latest |-> Processing,
   i |-> 1]

ExecTop == exec_stack[Len(exec_stack)]

\* The order-only prerequisites of a node, then its prerequisites
AllDeps(n) == exec_nodes[n].order_onlys \o exec_nodes[n].deps

\* exec, or the innermost exec_node, is about to call exec_node
AtRoot == exec_stack = <<>> /\ exec_root_i <= Len(exec_roots)

AtOrderOnly ==
  exec_stack # <<>> /\ ExecTop.i <= Len(exec_nodes[ExecTop.n].order_onlys)

AtDep == exec_stack # <<>> /\ ExecTop.i <= Len(AllDeps(ExecTop.n))

\* what it calls it on, and for whom
Callee == IF exec_stack = <<>> THEN exec_roots[exec_root_i] ELSE AllDeps(ExecTop.n)[ExecTop.i]

NeededBy == IF exec_stack = <<>> THEN None ELSE ExecTop.n

Calls ==
  /\ exec_pc = "running"
  /\ \/ AtRoot
     \/ AtDep /\ ~(AtOrderOnly /\ fs_exists(exec_files, Callee))

\* exec_node answers ts to the caller whose frame is the last of callers
ExecReturns(callers, ts) ==
  IF callers = <<>>
  THEN /\ exec_stack' = <<>>
       /\ exec_root_i' = exec_root_i + 1
  ELSE /\ exec_stack' =
            [callers EXCEPT ![Len(callers)] =
               [@ EXCEPT !.latest = IF status_lt(@, ts) THEN ts ELSE @, !.i = @ + 1]]
       /\ UNCHANGED exec_root_i

CircularWarning(needed_by, output) ==
  [warn |-> "Circular dependency dropped", needed_by |-> needed_by, output |-> output]

NoRuleError(output, needed_by) ==
  [error |-> "No rule to make target", output |-> output, needed_by |-> needed_by]

\* exec_node on a node that is in done
ExecFoundAs(found) ==
  /\ found.found
  /\ exec_stderr' = IF found.status = Processing
                    THEN Append(exec_stderr, CircularWarning(NeededBy, Callee))
                    ELSE exec_stderr
  /\ ExecReturns(exec_stack, found.status)

ExecFound ==
  /\ UNCHANGED notExec
  /\ Calls
  /\ ExecFoundAs(Executor_done_get(exec_done, Callee))
  /\ UNCHANGED <<exec_nodes, exec_roots, exec_files, exec_done, exec_ran, exec_stdout,
                 exec_pc>>

\* exec_node finds neither a rule nor a file for the node
Unbuildable(n) ==
  ~exec_nodes[n].has_rule /\ get_timestamp(exec_files, n) = 0 /\ ~exec_nodes[n].is_phony

\* exec_node on a node that is not in done, up to its first prerequisite
ExecEnter ==
  /\ UNCHANGED notExec
  /\ Calls
  /\ ~Executor_done_get(exec_done, Callee).found
  /\ ~Unbuildable(Callee)
  /\ exec_done' = insert(exec_done, Callee, Processing)
  /\ exec_stack' = Append(exec_stack,
                          ExecFrame(Callee, NeededBy,
                                    Timestamp(get_timestamp(exec_files, Callee))))
  /\ UNCHANGED <<exec_nodes, exec_roots, exec_files, exec_root_i, exec_ran, exec_stderr,
                 exec_stdout, exec_pc>>

\* exec_node on a node without rule and without file: the error ends exec
ExecNoRule ==
  /\ UNCHANGED notExec
  /\ Calls
  /\ ~Executor_done_get(exec_done, Callee).found
  /\ Unbuildable(Callee)
  /\ exec_done' = insert(exec_done, Callee, Processing)
  /\ exec_stderr' = Append(exec_stderr, NoRuleError(Callee, NeededBy))
  /\ exec_stack' = <<>>
  /\ exec_pc' = "failed"
  /\ UNCHANGED <<exec_nodes, exec_roots, exec_files, exec_root_i, exec_ran, exec_stdout>>

\* the loop over order_onlys passes a prerequisite whose file exists
ExecOrderOnlyExists ==
  /\ UNCHANGED notExec
  /\ exec_pc = "running" /\ AtOrderOnly /\ fs_exists(exec_files, Callee)
  /\ exec_stack' = [exec_stack EXCEPT ![Len(exec_stack)].i = @ + 1]
  /\ UNCHANGED <<exec_nodes, exec_roots, exec_files, exec_done, exec_root_i, exec_ran,
                 exec_stderr, exec_stdout, exec_pc>>

\* exec_node after the loops
AfterDeps == exec_pc = "running" /\ exec_stack # <<>> /\ ~AtDep

UpToDate ==
  status_ge(ExecTop.output_ts, ExecTop.latest) /\ ~exec_nodes[ExecTop.n].is_phony

\* exec_node from the end of the loops on, for a node that is up to date
ExecUpToDate ==
  /\ UNCHANGED notExec
  /\ AfterDeps /\ UpToDate
  /\ exec_done' = insert(exec_done, ExecTop.n, ExecTop.output_ts)
  /\ ExecReturns(SubSeq(exec_stack, 1, Len(exec_stack) - 1), ExecTop.output_ts)
  /\ UNCHANGED <<exec_nodes, exec_roots, exec_files, exec_ran, exec_stderr, exec_stdout,
                 exec_pc>>

\* The commands of a node have run, and wrote its output or not
CommandsRun(n, wrote) ==
  /\ exec_ran' = exec_ran \o [i \in 1..Len(exec_nodes[n].cmds) |-> n]
  /\ exec_files' = IF wrote /\ exec_nodes[n].cmds # <<>>
                   THEN [exec_files EXCEPT ![n] = MaxTs + 1]
                   ELSE exec_files

\* exec_node from the end of the loops on, for a node that is not
ExecRun ==
  /\ UNCHANGED notExec
  /\ AfterDeps /\ ~UpToDate
  /\ \E wrote \in BOOLEAN : CommandsRun(ExecTop.n, wrote)
  /\ exec_done' = insert(exec_done, ExecTop.n, ExecTop.output_ts)
  /\ ExecReturns(SubSeq(exec_stack, 1, Len(exec_stack) - 1), ExecTop.output_ts)
  /\ UNCHANGED <<exec_nodes, exec_roots, exec_stderr, exec_stdout, exec_pc>>

NothingToBeDone(sym) == [info |-> "kati: Nothing to be done for", sym |-> sym]

\* exec after the last root
ExecEnd ==
  /\ UNCHANGED notExec
  /\ exec_pc = "running" /\ exec_stack = <<>> /\ exec_root_i > Len(exec_roots)
  /\ exec_stdout' = IF exec_ran = <<>>
                    THEN [i \in 1..Len(exec_roots) |-> NothingToBeDone(exec_roots[i])]
                    ELSE exec_stdout
  /\ exec_pc' = "done"
  /\ UNCHANGED <<exec_nodes, exec_roots, exec_files, exec_done, exec_stack, exec_root_i,
                 exec_ran, exec_stderr>>

NextExec ==
  \/ ExecFound
  \/ ExecEnter
  \/ ExecNoRule
  \/ ExecOrderOnlyExists
  \/ ExecUpToDate
  \/ ExecRun
  \/ ExecEnd

(***************************************************************************)
(* find.rs: FindCommandParser::parse_find on the text that follows find.   *)
(* An Option<Bytes> is None or the bytes, a FindCond a tuple of its kind   *)
(* and its parts.  A failed assertion ends the parse: panicked is set and  *)
(* the loops stop.                                                         *)
(***************************************************************************)
\* The words of the text
MaxToks == 4

FindWords == {<<"(">>, <<")">>, <<"-", "n", "a", "m", "e">>, <<"x">>, <<"-", "o">>, <<"!">>, <<"-", "a">>}

\* The texts: words with one space between them
FindTexts == {join_words(ws) : ws \in UNION {[1..n -> FindWords] : n \in 0..MaxToks}}

\* FindCommandParser::new, after parse_impl read find
FindCommandParser(cur) ==
  [cur |-> cur, unget_tok |-> None, has_if |-> FALSE, panicked |-> FALSE,
   fc |-> [typ |-> None, print_cond |-> None, prune_cond |-> None,
           follows_symlink |-> FALSE, depth |-> I32_MAX, finddirs |-> <<>>,
           redirect_to_devnull |-> FALSE]]

\* What get_next_token answers, and the parser after it
Tok(p, tok) == [p |-> p, tok |-> tok]

\* Bytes::advance on cur
advance(p, n) == [p EXCEPT !.cur = SubSeq(@, n + 1, Len(@))]

\* u8::is_ascii_whitespace
is_ascii_whitespace(c) == c \in {" ", "\t", "\n", "\f", "\r"}

\* The loop of get_next_token: the length of the token at the head of s
RECURSIVE token_len(_)
token_len(s) ==
  IF s = <<>> \/ is_ascii_whitespace(s[1]) \/ s[1] \in {";", "&"} THEN 0
  ELSE 1 + token_len(Tail(s))

\* get_next_token from the test for a backslash inside the token on
unescaped(p, tok) == IF memchr("\\", tok) # 0 THEN Tok(p, None) ELSE Tok(p, tok)

\* get_next_token from the token it has cut on
unquote(p, tok) ==
  IF tok = <<>> THEN Tok(p, tok)
  ELSE IF tok[1] \in {"'", "\""}
  THEN IF Len(tok) < 2 \/ tok[Len(tok)] # tok[1] THEN Tok(p, None)
       ELSE Tok(p, SubSeq(tok, 2, Len(tok) - 1))
  ELSE unescaped(p, IF tok[1] = "\\" THEN Tail(tok) ELSE tok)

\* get_next_token where unget_tok is None, cur trimmed
scan_token(p) ==
  IF starts_with(p.cur, <<";">>) THEN Tok(advance(p, 1), <<";">>)
  ELSE IF starts_with(p.cur, <<"&", "&">>) THEN Tok(advance(p, 2), <<"&", "&">>)
  ELSE IF starts_with(p.cur, <<"&">>) THEN Tok(p, None)
  ELSE unquote(advance(p, token_len(p.cur)), SubSeq(p.cur, 1, token_len(p.cur)))

\* get_next_token that leaves the token in unget_tok
get_next_token_kept(p) ==
  IF p.unget_tok # None THEN Tok(p, p.unget_tok)
  ELSE scan_token([p EXCEPT !.cur = trim_left_space(@)])

\* FindCommandParser::get_next_token
get_next_token(p) ==
  IF p.unget_tok # None THEN Tok([p EXCEPT !.unget_tok = None], p.unget_tok)
  ELSE scan_token([p EXCEPT !.cur = trim_left_space(@)])

\* FindCommandParser::unget_token: the assertion, then the token kept
unget_token(p, tok) ==
  IF p.unget_tok # None THEN [p EXCEPT !.panicked = TRUE]
  ELSE IF tok # <<>> THEN [p EXCEPT !.unget_tok = tok]
  ELSE p

\* What parse_fact, parse_term and parse_expr answer, and the parser after
Cond(p, c) == [p |-> p, c |-> c]

NoFact(p) == Cond(p, None)

\* FindCond::new_name(..).ok(): no word holds the byte 0
new_name(name) == <<"Name", name>>

\* the letters of -type
FileTypes == {<<"b">>, <<"c">>, <<"d">>, <<"p">>, <<"l">>, <<"f">>, <<"s">>}

\* let tok = self.get_next_token()?; if tok.is_empty() { return None; }
has_operand(g) == g.tok # None /\ g.tok # <<>>

RECURSIVE parse_fact(_, _), term_loop(_, _), expr_loop(_, _)

\* parse_fact for -not, from the answer of the inner parse_fact on
fact_not(r) == IF r.c = None THEN r ELSE Cond(r.p, <<"Not", r.c>>)

fact_not_from(g) ==
  IF has_operand(g) THEN fact_not(parse_fact(g.p, g.tok)) ELSE NoFact(g.p)

\* parse_fact for -name and for -type, from the operand on
fact_name_from(g) ==
  IF has_operand(g) THEN Cond(g.p, new_name(g.tok)) ELSE NoFact(g.p)

fact_type_from(g) ==
  IF has_operand(g) /\ g.tok \in FileTypes THEN Cond(g.p, <<"Typ", g.tok>>)
  ELSE NoFact(g.p)

\* parse_term from the answer of parse_fact on
term_more(c, r) == IF r.c = None THEN r ELSE term_loop(r.p, <<"And", c, r.c>>)

term_and_from(c, g) ==
  IF has_operand(g) THEN term_more(c, parse_fact(g.p, g.tok)) ELSE NoFact(g.p)

\* One round of the loop of parse_term, from its first token on
term_next(c, g) ==
  IF g.tok = None THEN NoFact(g.p)
  ELSE IF g.tok \in {<<"-", "a", "n", "d">>, <<"-", "a">>} THEN term_and_from(c, get_next_token(g.p))
  ELSE IF g.tok \notin {<<"-", "n", "o", "t">>, <<"!">>, <<"(">>, <<"-", "n", "a", "m", "e">>, <<"-", "t", "y", "p", "e">>}
  THEN Cond(unget_token(g.p, g.tok), c)
  ELSE term_more(c, parse_fact(g.p, g.tok))

term_loop(p, c) == IF p.panicked THEN NoFact(p) ELSE term_next(c, get_next_token(p))

term_first(f) == IF f.c = None THEN f ELSE term_loop(f.p, f.c)

\* FindCommandParser::parse_term
parse_term(p, tok) == term_first(parse_fact(p, tok))

\* parse_expr from the answer of parse_term on
expr_more(c, r) == IF r.c = None THEN r ELSE expr_loop(r.p, <<"Or", c, r.c>>)

expr_or_from(c, g) ==
  IF has_operand(g) THEN expr_more(c, parse_term(g.p, g.tok)) ELSE NoFact(g.p)

\* One round of the loop of parse_expr, from its first token on
expr_next(c, g) ==
  IF g.tok = None THEN NoFact(g.p)
  ELSE IF g.tok \notin {<<"-", "o", "r">>, <<"-", "o">>} THEN Cond(unget_token(g.p, g.tok), c)
  ELSE expr_or_from(c, get_next_token(g.p))

expr_loop(p, c) == IF p.panicked THEN NoFact(p) ELSE expr_next(c, get_next_token(p))

expr_first(t) == IF t.c = None THEN t ELSE expr_loop(t.p, t.c)

\* FindCommandParser::parse_expr
FindCommandParser_parse_expr(p, tok) == expr_first(parse_term(p, tok))

\* parse_fact for (, from the answer of parse_expr on
fact_paren_close(e, g) == IF has_operand(g) THEN Cond(g.p, e.c) ELSE NoFact(g.p)

fact_paren_inner(e) == fact_paren_close(e, get_next_token(e.p))

fact_paren_from(g) ==
  IF has_operand(g) THEN fact_paren_inner(FindCommandParser_parse_expr(g.p, g.tok)) ELSE NoFact(g.p)

\* FindCommandParser::parse_fact
parse_fact(p, tok) ==
  IF tok \in {<<"-", "n", "o", "t">>, <<"!">>} THEN fact_not_from(get_next_token(p))
  ELSE IF tok = <<"(">> THEN fact_paren_from(get_next_token(p))
  ELSE IF tok = <<"-", "n", "a", "m", "e">> THEN fact_name_from(get_next_token(p))
  ELSE IF tok = <<"-", "t", "y", "p", "e">> THEN fact_type_from(get_next_token(p))
  ELSE NoFact(unget_token(p, tok))

\* FindCommandParser::parse_find_cond
parse_find_cond(p, tok) == FindCommandParser_parse_expr(p, tok)

\* str::parse::<i32> of digits with a sign before them or none
Digits == <<"0", "1", "2", "3", "4", "5", "6", "7", "8", "9">>

is_digits(s) == s # <<>> /\ \A i \in 1..Len(s) : memchr(s[i], Digits) # 0

RECURSIVE digits_value(_)
digits_value(s) ==
  IF s = <<>> THEN 0 ELSE 10 * digits_value(SubSeq(s, 1, Len(s) - 1))
                            + memchr(s[Len(s)], Digits) - 1

parse_i32(s) ==
  IF s # <<>> /\ s[1] = "-" /\ is_digits(Tail(s)) /\ digits_value(Tail(s)) <= I32_MAX + 1
  THEN [ok |-> TRUE, n |-> 0 - digits_value(Tail(s))]
  ELSE IF s # <<>> /\ s[1] = "+" /\ is_digits(Tail(s)) /\ digits_value(Tail(s)) <= I32_MAX
  THEN [ok |-> TRUE, n |-> digits_value(Tail(s))]
  ELSE IF is_digits(s) /\ digits_value(s) <= I32_MAX
  THEN [ok |-> TRUE, n |-> digits_value(s)]
  ELSE [ok |-> FALSE, n |-> 0]

\* What parse_find answers, and the parser after it
Found(p, ret) == [p |-> p, ret |-> ret]

RECURSIVE parse_find_loop(_)

\* parse_find for -prune, -print, -maxdepth, a condition and 2>, from the
\* token that follows on
find_prune(g) ==
  IF g.tok # <<"-", "o">> THEN Found(g.p, FALSE)
  ELSE parse_find_loop([g.p EXCEPT !.fc.prune_cond = g.p.fc.print_cond,
                                   !.fc.print_cond = None])

find_print(g) == Found(g.p, g.tok = <<>>)

find_depth(p, depth) ==
  IF ~depth.ok \/ depth.n < 0 THEN Found(p, FALSE)
  ELSE parse_find_loop([p EXCEPT !.fc.depth = depth.n])

find_maxdepth(g) ==
  IF has_operand(g) THEN find_depth(g.p, parse_i32(g.tok)) ELSE Found(g.p, FALSE)

find_cond(r) ==
  IF r.c = None THEN Found(r.p, FALSE)
  ELSE parse_find_loop([r.p EXCEPT !.fc.print_cond = r.c])

find_redirect(g) ==
  IF g.tok # <<"/", "d", "e", "v", "/", "n", "u", "l", "l">> THEN Found(g.p, FALSE)
  ELSE parse_find_loop([g.p EXCEPT !.fc.redirect_to_devnull = TRUE])

\* One round of the loop of parse_find, from its first token on
find_next(g) ==
  IF g.tok = None THEN Found(g.p, FALSE)
  ELSE IF g.tok = <<>> \/ g.tok = <<";">> THEN Found(g.p, TRUE)
  ELSE IF g.tok = <<"-", "L">> THEN parse_find_loop([g.p EXCEPT !.fc.follows_symlink = TRUE])
  ELSE IF g.tok = <<"-", "p", "r", "u", "n", "e">>
  THEN IF g.p.fc.print_cond = None \/ g.p.fc.prune_cond # None THEN Found(g.p, FALSE)
       ELSE find_prune(get_next_token(g.p))
  ELSE IF g.tok = <<"-", "p", "r", "i", "n", "t">> THEN find_print(get_next_token(g.p))
  ELSE IF g.tok = <<"-", "m", "a", "x", "d", "e", "p", "t", "h">> THEN find_maxdepth(get_next_token(g.p))
  ELSE IF starts_with(g.tok, <<"-">>) \/ g.tok = <<"(">> \/ g.tok = <<"!">>
  THEN IF g.p.fc.print_cond # None THEN Found(g.p, FALSE)
       ELSE find_cond(parse_find_cond(g.p, g.tok))
  ELSE IF g.tok = <<"2", ">">> THEN find_redirect(get_next_token(g.p))
  ELSE IF \E i \in 1..Len(g.tok) : g.tok[i] \in {"|", ";", "&", ">", "<", "'", "\""}
  THEN Found(g.p, FALSE)
  ELSE parse_find_loop([g.p EXCEPT !.fc.finddirs = Append(@, g.tok)])

parse_find_loop(p) ==
  IF p.panicked THEN Found(p, FALSE) ELSE find_next(get_next_token(p))

\* FindCommandParser::parse_find
parse_find(p) == parse_find_loop([p EXCEPT !.fc.typ = "Find"])

InitParseFind ==
  /\ FLAGS = DefaultFlags
  /\ \E text \in FindTexts : pf_in = [cur |-> text]
  /\ pf_out = <<>>
  /\ IdleEval
  /\ IdleRegen /\ IdleTree /\ IdleInner /\ IdleFind /\ IdleSym /\ IdleExp /\ IdleDep
  /\ IdleMk /\ IdleRun

\* get_next_token on the text
ApplyGetNextToken ==
  Returned("get_next_token", get_next_token(FindCommandParser(pf_in.cur)))

\* parse_find on the text
ApplyParseFind == Returned("parse_find", parse_find(FindCommandParser(pf_in.cur)))

NextParseFind == ApplyGetNextToken \/ ApplyParseFind

(***************************************************************************)
(* Specifications.                                                         *)
(***************************************************************************)
SpecRegen == InitRegen /\ [][NextRegen]_vars

SpecReplay == InitReplay /\ [][NextRegen]_vars

SpecInner == InitInner /\ [][NextInner]_vars

\* Every caller inside inner() is scheduled again
SpecInnerFair == SpecInner /\ \A r \in Readers : WF_vars(ReaderStep(r))

SpecFind == InitFind /\ [][NextFind]_vars

SpecSym == InitSym /\ [][NextSym]_vars

SpecExp == InitExp /\ [][NextExp]_vars

\* A find command that was started keeps running
SpecFindFair ==
  SpecFind /\ WF_vars(NextFindDir \/ NextBase \/ RunFindEnter \/ RunFindChildren)

SpecAssign == InitAssign /\ [][NextAssign]_vars

\* assignments of literals, then $(value NAME)
SpecValue == InitValue /\ [][NextValue]_vars

\* parse_file on a makefile of conditionals and defines
SpecParse == InitMk /\ [][NextParse]_vars

\* a makefile of rules is parsed and evaluated
SpecMk == InitMk /\ [][NextMk]_vars

SpecMatch == InitMatch /\ [][NextMatch]_vars

SpecSubst == InitSubst /\ [][NextSubst]_vars

SpecSuffix == InitSuffix /\ [][NextSuffix]_vars

\* command.rs: recipes are evaluated, target after target
SpecCmd == InitCmd /\ [][NextCmd]_vars

\* calls of user functions nested in one another
SpecCall == InitCall /\ [][NextCall]_vars

\* calls of intern one after the other
SpecIntern == InitIntern /\ [][NextIntern]_vars

\* exec on the roots of a plan
SpecExec == InitExec /\ [][NextExec]_vars

\* exec is one sequential computation: it runs on while it can
SpecExecFair == SpecExec /\ WF_vars(NextExec)

\* parse_find on one text
SpecParseFind == InitParseFind /\ [][NextParseFind]_vars

SpecPlan == InitPlan /\ [][NextPlan]_vars

\* build() is one sequential computation: it runs on while it can
SpecPlanFair ==
  SpecPlan /\ WF_vars(Build \/ BuildTarget \/ BuildReturn \/ BuildPlanFound
                        \/ BuildPlanNew \/ PickRule \/ PickRuleLoop \/ BuildPlanFill
                        \/ BuildPlanInput \/ BuildPlanError \/ BuildPlanAdvance
                        \/ BuildPlanReturn)

(***************************************************************************)
(* Properties.                                                             *)
(***************************************************************************)

\* C6 (as claimed): once the shared cell holds "must regenerate", no worker
\* performs another glob or shell check.
C6_ShortCircuit ==
  [][needs_regen = "OkTrue" => (glob_i' = glob_i /\ cmd_i' = cmd_i)]_vars

\* A recorded glob whose current matches differ from the stored ones
SomeGlobChanged(ignorable) ==
  \E i \in 1..Len(globs) :
    /\ glob_changed(globs[i])
    /\ (ignorable \/ ~should_ignore_dirty(globs[i].pat))

\* C7 (as claimed): if any recorded glob now yields other matches than the
\* stored ones, the check reports that regeneration is needed.
C7_AnyChangedGlobRegen ==
  (regen_pc = "done" /\ SomeGlobChanged(TRUE)) => regen_ret = TRUE

\* C7 (amended): if a recorded glob whose pattern --ignore_dirty does not
\* cover now yields other matches than the stored ones, the check reports
\* that regeneration is needed, whatever the command worker stored first.
C7_ChangedGlobRegen ==
  (regen_pc = "done" /\ SomeGlobChanged(FALSE)) => regen_ret = TRUE

\* C7 witness: a changed glob, the command worker's error stored first, and
\* the check still answers "regenerate"
C7_Witness ==
  /\ regen_pc = "done" /\ SomeGlobChanged(FALSE)
  /\ needs_regen = "Err" /\ glob_pc = "exit" /\ glob_i > 1
  /\ regen_ret = TRUE

\* C8: the closure of a node runs at most once, every caller that gets a node
\* type gets the one stored in the node, never the Error type, and every
\* call returns.
C8_OneShotRead ==
  /\ [](/\ init_runs <= 1
        /\ \A r \in Readers :
             rd_ret[r] \notin {Pending, NoneRet} =>
               /\ rd_ret[r] = nodes[rd_node].inner
               /\ rd_ret[r].kind # "Error")
  /\ \A r \in Readers : (rd_pc[r] \notin {"idle", "done"}) ~> (rd_pc[r] = "done")

\* C8 witness: both readers have read a link node that was initialized while
\* the second one was inside inner()
C8_Witness ==
  /\ fs[rd_node].typ = "symlink" /\ init_runs = 1
  /\ \A r \in Readers : rd_pc[r] = "done" /\ rd_calls[r] = 1 /\ rd_follows[r]
  /\ \A r \in Readers : rd_ret[r] = nodes[rd_node].inner

\* C9 (as claimed): a caller that does not follow links never gets the node
\* type of a link node.
C9_NeverFollowed ==
  \A r \in Readers :
    (rd_pc[r] = "done" /\ ~rd_follows[r] /\ fs[rd_node].typ = "symlink")
      => rd_ret[r] = NoneRet

\* run_find is about to enter a directory node that is on the traversal path
ReEntry ==
  /\ find_pc = "run" /\ stack # <<>> /\ Top.phase = "call"
  /\ Top.node \in DOMAIN cur_read_dirs
  /\ inner(nodes, Top.node, fc.follows_symlink).ret.kind = "Dir"

\* The re-entered call returns Ok(true) after a warning and leaves the output
\* as it was
BranchEndsWithWarning ==
  /\ stack' = SubSeq(stack, 1, Len(stack) - 1)
  /\ find_log' = Append(find_log, "warning: File system loop detected")
  /\ results' = results /\ find_pc' = "run"

\* The re-entered call returns Err, and so does handle_find
FindEndsWithError ==
  /\ stack' = <<>> /\ find_pc' = "idle" /\ find_ret'.ret = "Err"
  /\ find_log' = Append(find_log, "error: File system loop detected")

\* C10 (as claimed): re-entering a directory node that is on the traversal
\* path ends that branch of the recursion with a warning.
C10_ReEntryWarns == [][ReEntry => BranchEndsWithWarning]_vars

\* C10 (amended): re-entering a directory node that is on the traversal path
\* ends that branch with a warning, or ends the whole find with an error
\* under --werror_find_emulator, and every find that was started returns.
C10_ReEntryEnds ==
  /\ [][ReEntry => IF FLAGS.werror_find_emulator THEN FindEndsWithError
                   ELSE BranchEndsWithWarning]_vars
  /\ (find_pc = "run") ~> (find_pc = "idle")

\* C10 witness: find -L over two directories linked to each other has
\* returned its output after two loop warnings
C10_Witness ==
  /\ fs = TreeCross /\ find_pc = "idle" /\ find_count > 0
  /\ fc.follows_symlink /\ fc.prune_cond = NoCond /\ fc.finddirs = << <<".">> >>
  /\ find_ret.ret = "OkTrue"
  /\ Len(find_log) = 2
  /\ \A i \in 1..Len(find_log) : find_log[i] = "warning: File system loop detected"

\* C3 (as claimed): an assignment of file origin, by any operator, leaves
\* the value of a variable of command-line or override origin as it was.
C3_FileKeepsValue ==
  [][\A stmt \in StmtPool("file") :
       (/\ ev_phase = "file" /\ stmt.lhs \in Syms /\ ~stmt.is_override
        /\ symbol_data[stmt.lhs] # NoVar
        /\ symbol_data[stmt.lhs].origin \in {"CommandLine", "Override"}
        /\ EvalAssignStmt(stmt))
       => symbol_data'[stmt.lhs].value = symbol_data[stmt.lhs].value]_vars

\* The variable bound to s is readonly
Readonly(s) == symbol_data[s] # NoVar /\ symbol_data[s].readonly

\* C4 (as claimed): a symbol bound to a readonly variable is bound to a
\* readonly variable in every later state.
C4_ReadonlyMonotone == [][\A s \in Syms : Readonly(s) => Readonly(s)']_vars

\* C4 (amended): a step that is not the creation or the drop of a scoped
\* binding leaves a symbol bound to a readonly variable bound to it,
\* unchanged; the drop of a scoped binding puts back the variable the symbol
\* was bound to before.
C4_ReadonlyKept ==
  [][/\ \A s \in Syms :
          (Readonly(s) /\ sv_stack' = sv_stack) => symbol_data'[s] = symbol_data[s]
     /\ Len(sv_stack') < Len(sv_stack) =>
          symbol_data'[sv_stack[Len(sv_stack)].sym] = sv_stack[Len(sv_stack)].orig]_vars

\* C4 witness: an assignment to a readonly variable of the makefile was
\* refused, inside a scoped binding of the other symbol
C4_Witness ==
  /\ Readonly("X") /\ symbol_data["X"].origin = "File"
  /\ ev_error = "cannot assign to readonly variable"
  /\ Len(sv_stack) = 1 /\ sv_stack[1].sym = "Y"

\* C5 (as claimed): a variable whose value is being expanded is not expanded
\* again before that expansion has ended, whatever form of reference names
\* it.
C5_NoReentry ==
  \A i, j \in 1..Len(expanding(work)) :
    i < j => expanding(work)[i] # expanding(work)[j]

\* The nodes the map done holds
Recorded == {done[o] : o \in DOMAIN done}

\* The nodes a node refers to from deps, order_onlys and validations
Referenced(node) ==
  {node.deps[i][2] : i \in 1..Len(node.deps)}
    \cup {node.order_onlys[i][2] : i \in 1..Len(node.order_onlys)}
    \cup {node.validations[i][2] : i \in 1..Len(node.validations)}

\* C1: when planning has completed, every node referenced from the deps,
\* order_onlys or validations of a DepNode is a node the map done holds
C1_Closed ==
  (plan_pc = "done" /\ plan_err = "")
    => \A k \in 1..Len(dep_nodes) : Referenced(dep_nodes[k]) \subseteq Recorded

\* build_plan is entered for an output that is in done
MemoHit ==
  /\ plan_pc = "building" /\ plan_stack # <<>> /\ PlanTop.phase = "call"
  /\ PlanTop.input \in DOMAIN done

\* The activation on top of the stack ends and hands the node c to its
\* caller, and no node is allocated
ReturnsRecorded(c) ==
  /\ Len(dep_nodes') = Len(dep_nodes)
  /\ Len(plan_stack') = Len(plan_stack) - 1
  /\ IF Len(plan_stack) = 1
     THEN plan_ret' = Append(plan_ret, <<PlanTop.input, c>>)
     ELSE <<PlanTop.input, c>> \in
            { dep_nodes'[PlanCallers[Len(PlanCallers)].n].deps[i] :
                i \in 1..Len(dep_nodes'[PlanCallers[Len(PlanCallers)].n].deps) }
            \cup { dep_nodes'[PlanCallers[Len(PlanCallers)].n].order_onlys[i] :
                i \in 1..Len(dep_nodes'[PlanCallers[Len(PlanCallers)].n].order_onlys) }
            \cup { dep_nodes'[PlanCallers[Len(PlanCallers)].n].validations[i] :
                i \in 1..Len(dep_nodes'[PlanCallers[Len(PlanCallers)].n].validations) }

\* C2: a build_plan for an output that is in done returns the recorded node
\* without planning it again, and build() comes to its end for every rule
\* set, also when the prerequisites form a cycle
C2_MemoTerminates ==
  /\ [][MemoHit => (ReturnsRecorded(done[PlanTop.input]) /\ done' = done)]_vars
  /\ (plan_pc = "idle") ~> (plan_pc = "done" /\ plan_stack = <<>>)

\* C2 witness: planning has completed without error for a rule set with a
\* cycle: two nodes, or one, that are prerequisites of each other
C2_Witness ==
  /\ plan_pc = "done" /\ plan_err = ""
  /\ \E k, j \in 1..Len(dep_nodes) :
       /\ j \in Referenced(dep_nodes[k])
       /\ k \in Referenced(dep_nodes[j])

\* C18: an assignment statement (=, := or +=) whose left-hand side is bound
\* to a readonly variable ends with the error "cannot assign to readonly
\* variable", and no assignment statement on such a symbol, ?= included
\* (which assigns nothing to a defined variable), changes a binding or a
\* value of the table.
C18_ReadonlyAssignFails ==
  [][(stmt_count' # stmt_count /\ \E s \in Syms : Readonly(s)) =>
       \A stmt \in StmtPool(ev_phase) :
         (stmt.lhs # KATI_READONLY_SYM /\ Readonly(stmt.lhs) /\ EvalAssignStmt(stmt))
           => /\ symbol_data' = symbol_data
              /\ stmt.op # "QuestionEq" =>
                   ev_error' = "cannot assign to readonly variable"]_vars

\* C18 witness: Y was bound by the makefile and marked readonly, and a later
\* assignment to it was refused outside of any scoped binding
C18_Witness ==
  /\ Readonly("Y") /\ symbol_data["Y"].origin = "File"
  /\ symbol_data["Y"].value = <<"f">>
  /\ symbol_data["X"] = NoVar /\ sv_stack = <<>>
  /\ ev_error = "cannot assign to readonly variable"

\* Every recorded command is a $(file) write whose file can be opened
OnlyWrites ==
  \A i \in 1..Len(commands) :
    commands[i].op \in {"Write", "Append"} /\ commands[i].open_ok

\* C20 (as claimed): when the command worker has replayed the recorded Write
\* and Append entries, every file has the contents the generation run left,
\* and a check of such entries alone does not ask for regeneration.
C20_ReplayIdempotent ==
  (cmd_pc = "exit" /\ OnlyWrites)
    => /\ files = generated(commands, 1, FilesBefore)
       /\ (globs = <<>> => needs_regen = "OkFalse")

\* NAME := $(NAME)
SelfAssign(sym) == AssignStmt(sym, SymRef(sym), "ColonEq", FALSE, FALSE)

\* The right-hand side of stmt is being evaluated
InFlight(stmt) ==
  /\ exp_pc = "running" /\ work # <<>>
  /\ work[1].k = "assign" /\ work[1].stmt = stmt

\* The symbols a value tree refers to
RECURSIVE refs(_)
refs(v) ==
  IF v.t = "SymRef" THEN {v.sym}
  ELSE IF v.t = "List" THEN UNION {refs(v.vec[i]) : i \in 1..Len(v.vec)}
  ELSE {}

\* The expansion of $(sym) comes back to a variable that is being expanded:
\* sym is one of seen, or a recursive variable whose tree leads to one
RECURSIVE Cyclic(_, _)
Cyclic(sym, seen) ==
  /\ symbol_data[sym] # NoVar
  /\ \/ sym \in seen
     \/ /\ symbol_data[sym].flavor = "Recursive"
        /\ \E s \in refs(symbol_data[sym].value) : Cyclic(s, seen \cup {sym})

\* The bytes a value tree that leads to no cycle expands to
RECURSIVE Expansion(_)
Expansion(v) ==
  IF v.t = "Literal" THEN v.lit
  ELSE IF v.t = "List"
  THEN IF v.vec = <<>> THEN <<>>
       ELSE Expansion(Head(v.vec)) \o Expansion(List(Tail(v.vec)))
  ELSE IF symbol_data[v.sym] = NoVar THEN <<>>
  ELSE IF symbol_data[v.sym].flavor = "Simple" THEN symbol_data[v.sym].value
  ELSE Expansion(symbol_data[v.sym].value)

\* C19 (as claimed): the evaluation of NAME := $(NAME) ends with the error of
\* the recursion guard.
C19_SelfAssignFails ==
  [][\A sym \in {SymX, SymY} :
       (InFlight(SelfAssign(sym)) /\ exp_pc' # "running")
         => ev_error' = "Recursive variable references itself (eventually)"]_vars

\* C19 (amended): NAME := $(NAME) expands $(NAME) with the binding NAME has
\* before the statement.  It ends with the error of the recursion guard, and
\* binds nothing, exactly when NAME is bound to a recursive variable whose
\* expansion comes back to a variable being expanded; otherwise it ends
\* without error and binds NAME to a simple variable holding that expansion
\* (empty when NAME was undefined).
C19_SelfAssignExpands ==
  [][\A sym \in {SymX, SymY} :
       (InFlight(SelfAssign(sym)) /\ exp_pc' # "running")
         => IF Cyclic(sym, {})
            THEN /\ ev_error' = "Recursive variable references itself (eventually)"
                 /\ symbol_data' = symbol_data
            ELSE /\ ev_error' = ""
                 /\ symbol_data' = [symbol_data EXCEPT ![sym] =
                      Variable("File", "Simple", Expansion(SymRef(sym)), FALSE)]]_vars

\* C19 witness: the right-hand side of X := $(X) has been expanded to the
\* value of the simple variable X without error, and is about to be bound
C19_Witness ==
  /\ InFlight(SelfAssign(SymX)) /\ Len(work) = 1
  /\ symbol_data[SymX] = Simple(<<"a">>)
  /\ bufs = << <<"a">> >> /\ ev_error = ""

\* NAME += e of the makefile
PlusAssigns == { stmt \in AssignPool : stmt.op = "PlusEq" }

\* The expansion of the value tree e comes back to a variable being expanded
CyclicValue(e) == \E s \in refs(e) : Cyclic(s, {})

\* C17: NAME += e on a recursive variable makes its tree the old tree, a
\* literal space and the tree e, unexpanded; on a simple variable without
\* the readonly bit it makes its bytes the old bytes, a space and the
\* expansion of e at that time (nothing changes when that expansion fails);
\* on an undefined NAME it binds NAME to a new recursive variable whose tree
\* is e, as NAME = e does.
C17_AppendKeepsOrder ==
  [][\A stmt \in PlusAssigns :
       /\ (EvalAssignTree(stmt) /\ symbol_data[stmt.lhs] = NoVar)
            => /\ symbol_data' = [symbol_data EXCEPT ![stmt.lhs] =
                                    Variable("File", "Recursive", stmt.rhs, FALSE)]
               /\ EvalAssignTree([stmt EXCEPT !.op = "Eq"])
       /\ (/\ EvalAssignTree(stmt)
           /\ symbol_data[stmt.lhs] # NoVar
           /\ symbol_data[stmt.lhs].flavor = "Recursive")
            => /\ ev_error' = ""
               /\ symbol_data' = [symbol_data EXCEPT ![stmt.lhs].value =
                    List(<<symbol_data[stmt.lhs].value, Literal(<<" ">>), stmt.rhs>>)]
       /\ (InFlight(stmt) /\ exp_pc' # "running")
            => IF CyclicValue(stmt.rhs)
               THEN ev_error' # "" /\ symbol_data' = symbol_data
               ELSE /\ ev_error' = ""
                    /\ symbol_data[stmt.lhs].flavor = "Simple"
                    /\ symbol_data' = [symbol_data EXCEPT ![stmt.lhs].value =
                         symbol_data[stmt.lhs].value \o <<" ">>
                           \o Expansion(stmt.rhs)]]_vars

\* C17 witness: X = a and Y := b were followed by X += $(Y), which left the
\* reference in the tree of X, and by Y += $(X), which appended the
\* expansion of X to the bytes of Y
C17_Witness ==
  /\ exp_pc = "idle" /\ ev_error = "" /\ stmt_count = 2
  /\ symbol_data[SymX] =
       Recursive(List(<<Literal(<<"a">>), Literal(<<" ">>), SymRef(SymY)>>))
  /\ symbol_data[SymY] = Simple(<<"b", " ", "a", " ", "b">>)

\* The rules the makefile declares for the target o, in declaration order,
\* and those of them that have commands
RulesFor(o) ==
  SelectSeq(plan_ev.rules, LAMBDA r : \E i \in 1..Len(r.outputs) : r.outputs[i] = o)

WithCmds(o) == SelectSeq(RulesFor(o), LAMBDA r : r.cmds # <<>>)

\* The targets of the makefile, and those all of whose rules are single-colon
Targets ==
  UNION {{plan_ev.rules[i].outputs[j] : j \in 1..Len(plan_ev.rules[i].outputs)} :
           i \in 1..Len(plan_ev.rules)}

SingleColon(o) == \A i \in 1..Len(RulesFor(o)) : ~RulesFor(o)[i].is_double_colon

DoubleColons(o) == \A i \in 1..Len(RulesFor(o)) : RulesFor(o)[i].is_double_colon

\* The DepNodes planned as the target o
NodesOf(o) == {k \in 1..Len(dep_nodes) : dep_nodes[k].output = o}

\* DepBuilder::new has printed the two warnings about overridden commands
WarnedOverride ==
  \E i \in 1..(Len(plan_warn) - 1) :
    /\ plan_warn[i] = "warning: overriding commands for target"
    /\ plan_warn[i + 1] = "warning: ignoring old commands for target"

\* What the declaration of a second rule with commands for the target o
\* leads to, the commands of a planned node being those of WithCmds(o)[which]
Overridden(o, diagnosed, which) ==
  /\ (plan_pc # "new" /\ diagnosed) =>
       IF FLAGS.werror_overriding_commands
       THEN plan_err = "*** overriding commands for target"
       ELSE plan_err = "" /\ WarnedOverride
  /\ (plan_pc = "done" /\ plan_err = "") =>
       \A k \in NodesOf(o) : dep_nodes[k].cmds = WithCmds(o)[which].cmds

\* C11 (as claimed): when a single-colon target has two or more rules with
\* commands, DepBuilder::new warns, or fails under
\* --werror_overriding_commands, and the commands of the target's DepNode are
\* those of the rule with commands declared last.
C11_LaterCommandsWin ==
  \A o \in Targets :
    (SingleColon(o) /\ Len(WithCmds(o)) >= 2)
      => Overridden(o, TRUE, Len(WithCmds(o)))

\* C11 (amended): the same for a target whose name is not of the form of a
\* suffix rule (.in.out); for a target of that form there is no diagnostic
\* and the commands of its DepNode are those of the rule with commands
\* declared first.
C11_LaterCommandsWinButSuffix ==
  \A o \in Targets :
    (SingleColon(o) /\ Len(WithCmds(o)) >= 2)
      => IF is_suffix_rule(o)
         THEN Overridden(o, FALSE, 1) /\ plan_err = "" /\ plan_warn = <<>>
         ELSE Overridden(o, TRUE, Len(WithCmds(o)))

\* C11 witness: a: b ; echo one ; a: c ; echo two was planned after the two
\* warnings, and the node of a has the commands of the second rule and the
\* prerequisites of both
C11_Witness ==
  /\ plan_pc = "done" /\ plan_err = "" /\ WarnedOverride
  /\ \E k \in NodesOf(SymA) :
       /\ dep_nodes[k].cmds = Two
       /\ dep_nodes[k].actual_inputs = <<SymC, SymB>>
       /\ Len(RulesFor(SymA)) = 2

\* The elements of a sequence
Range(s) == {s[i] : i \in 1..Len(s)}

\* The prerequisites, order-only ones included, of a rule and of the
\* explicit rules of the target o
RuleInputs(r) == Range(r.inputs) \cup Range(r.order_only_inputs)

ExplicitInputs(o) == UNION {RuleInputs(RulesFor(o)[i]) : i \in 1..Len(RulesFor(o))}

NodeInputs(n) == Range(n.actual_inputs) \cup Range(n.actual_order_only_inputs)

\* What the implicit rules that match the target o would give its node: the
\* commands and the substituted prerequisites of a pattern rule one of whose
\* patterns matches o and whose substituted prerequisites all exist, or of a
\* suffix rule for the extension of o whose substituted prerequisite exists
PatternOffers(o) ==
  {[cmds |-> implicit_rules[i].rule.cmds,
    inputs |-> {append_subst(
                  implicit_rules[i].rule.output_patterns[
                    matched_pattern(implicit_rules[i].rule, o)], o, p) :
                  p \in RuleInputs(implicit_rules[i].rule)}] :
     i \in {j \in 1..Len(implicit_rules) :
              matched_pattern(implicit_rules[j].rule, o) # 0}}

SuffixRulesFor(o) ==
  IF get_ext(o) = None THEN <<>>
  ELSE IF Tail(get_ext(o)) \notin DOMAIN suffix_rules THEN <<>>
  ELSE suffix_rules[Tail(get_ext(o))]

SuffixOffers(o) ==
  {[cmds |-> SuffixRulesFor(o)[i].cmds,
    inputs |-> {replace_suffix(o, SuffixRulesFor(o)[i].inputs[1])}] :
     i \in {j \in 1..Len(SuffixRulesFor(o)) :
              exists(replace_suffix(o, SuffixRulesFor(o)[j].inputs[1]))}}

ImplicitOffers(o) == PatternOffers(o) \cup SuffixOffers(o)

\* The targets that have explicit rules and an implicit rule that matches
BothMatch == {o \in Targets : ImplicitOffers(o) # {}}

Planned == plan_pc = "done" /\ plan_err = ""

\* C12 (as claimed): when an explicit rule and an implicit rule both match a
\* target, the commands and the prerequisites of its DepNode are those of
\* the explicit rules and none of the implicit rule.
C12_ExplicitWins ==
  Planned =>
    \A o \in BothMatch : \A k \in NodesOf(o) :
      /\ \E i \in 1..Len(RulesFor(o)) : dep_nodes[k].cmds = RulesFor(o)[i].cmds
      /\ NodeInputs(dep_nodes[k]) = ExplicitInputs(o)

\* C12 (amended): when a single-colon explicit rule with commands and an
\* implicit rule both match a target, the commands and the prerequisites of
\* its DepNode are those of the explicit rules; when the explicit rules have
\* no commands, the commands are those of a matching implicit rule and the
\* prerequisites are those of that implicit rule and of the explicit rules.
C12_ExplicitCommandsWin ==
  Planned =>
    \A o \in BothMatch : \A k \in NodesOf(o) :
      IF WithCmds(o) # <<>>
      THEN SingleColon(o) =>
             /\ dep_nodes[k].cmds = WithCmds(o)[Len(WithCmds(o))].cmds
             /\ NodeInputs(dep_nodes[k]) = ExplicitInputs(o)
      ELSE \E offer \in ImplicitOffers(o) :
             /\ dep_nodes[k].cmds = offer.cmds
             /\ NodeInputs(dep_nodes[k]) = offer.inputs \cup ExplicitInputs(o)

\* C12 witness: x.o was planned from x.o: a ; echo two although %.o: %.c
\* with echo one matches it
C12_Witness ==
  /\ Planned /\ SymXo \in BothMatch
  /\ WithCmds(SymXo) # <<>> /\ PatternOffers(SymXo) # {}
  /\ \E k \in NodesOf(SymXo) :
       dep_nodes[k].cmds = Two /\ dep_nodes[k].actual_inputs = <<SymA>>

\* x.o was planned from x.o: a, which has no commands, and the suffix rule
\* .c.o with echo one
ExplicitWithoutCommandsPlanned ==
  /\ Planned /\ SymXo \in BothMatch
  /\ WithCmds(SymXo) = <<>> /\ SuffixOffers(SymXo) # {}
  /\ \E k \in NodesOf(SymXo) :
       dep_nodes[k].cmds = One /\ dep_nodes[k].actual_inputs = <<SymXc, SymA>>

\* The frames of build_plan that pick_rule has answered and fill_dep_node
\* has not yet filled, for a target without an explicit rule with commands
PickedFrames ==
  {i \in 1..Len(plan_stack) :
     /\ plan_stack[i].phase = "fill"
     /\ plan_stack[i].output \in DOMAIN rules
          => rules[plan_stack[i].output].primary_rule = 0}

\* The declarations of the makefile that are implicit rules matching the
\* target o: pattern rules one of whose patterns matches o and whose
\* substituted prerequisites all exist, and suffix rules in force for the
\* extension of o whose substituted prerequisite exists
PatternDecls(o) ==
  {i \in 1..Len(plan_ev.rules) :
     /\ plan_ev.rules[i].output_patterns # <<>>
     /\ \E k \in 1..Len(implicit_rules) : implicit_rules[k].rule = plan_ev.rules[i]
     /\ matched_pattern(plan_ev.rules[i], o) # 0}

\* The suffix rule populate_suffix_rule makes of the rule r for its output
SuffixRuleOf(r, output) ==
  [r EXCEPT !.inputs = <<input_suffix(output)>>, !.is_suffix_rule = TRUE]

SuffixOutputs(r, o) ==
  {out \in Range(r.outputs) :
     /\ is_suffix_rule(out)
     /\ SuffixRuleOf(r, out) \in Range(SuffixRulesFor(o))
     /\ exists(replace_suffix(o, input_suffix(out)))}

SuffixDecls(o) ==
  {i \in 1..Len(plan_ev.rules) :
     plan_ev.rules[i].output_patterns = <<>> /\ SuffixOutputs(plan_ev.rules[i], o) # {}}

\* The rule a frame holds when the declaration i was chosen for the target o
ChosenAs(i, o) ==
  IF plan_ev.rules[i].output_patterns # <<>>
  THEN {[plan_ev.rules[i] EXCEPT !.output_patterns = <<p>>] :
          p \in Range(plan_ev.rules[i].output_patterns)}
  ELSE {SuffixRuleOf(plan_ev.rules[i], out) : out \in SuffixOutputs(plan_ev.rules[i], o)}

Latest(S) == CHOOSE i \in S : \A j \in S : j <= i

\* The length of the longest literal prefix, before %, of the patterns of
\* the declaration i that match o
PrefixLen(i, o) ==
  Latest({trie_depth(p) : p \in {q \in Range(plan_ev.rules[i].output_patterns) :
                                   matches(q, o)}})

\* Of the pattern rules S that match o: the most recently declared of those
\* with the longest literal prefix
Deepest(S, o) ==
  CHOOSE i \in S : \A j \in S :
    \/ PrefixLen(j, o) < PrefixLen(i, o)
    \/ PrefixLen(j, o) = PrefixLen(i, o) /\ j <= i

\* C13 (as claimed): of the implicit rules that match a target, pick_rule
\* chooses the most recently declared.
C13_MostRecentChosen ==
  \A f \in PickedFrames :
    PatternDecls(plan_stack[f].output) \cup SuffixDecls(plan_stack[f].output) # {}
      => plan_stack[f].pattern_rule \in
           ChosenAs(Latest(PatternDecls(plan_stack[f].output)
                             \cup SuffixDecls(plan_stack[f].output)),
                    plan_stack[f].output)

\* C13 (amended): of the pattern rules that match a target, pick_rule
\* chooses one whose matching pattern has the longest literal prefix before
\* %, and of these the most recently declared; it chooses a suffix rule only
\* when no pattern rule matches, and then the most recently declared.
C13_DeepestThenMostRecentChosen ==
  \A f \in PickedFrames :
    IF PatternDecls(plan_stack[f].output) # {}
    THEN plan_stack[f].pattern_rule \in
           ChosenAs(Deepest(PatternDecls(plan_stack[f].output), plan_stack[f].output),
                    plan_stack[f].output)
    ELSE IF SuffixDecls(plan_stack[f].output) # {}
    THEN plan_stack[f].pattern_rule \in
           ChosenAs(Latest(SuffixDecls(plan_stack[f].output)), plan_stack[f].output)
    ELSE plan_stack[f].pattern_rule = NoRule

\* C13 witness: of %.o: %.c with echo one, %.o: %.c with echo two and
\* %.o: %.b with echo three, x.b missing, the second was chosen for x.o
C13_Witness ==
  \E f \in PickedFrames :
    /\ plan_stack[f].output = SymXo
    /\ Cardinality(PatternDecls(SymXo)) = 2
    /\ \E i \in 1..Len(plan_ev.rules) :
         plan_ev.rules[i].output_patterns # <<>> /\ i \notin PatternDecls(SymXo)
    /\ plan_stack[f].pattern_rule.cmds = Two

\* The pairs <<primary target, implicit output>> that the makefile declares
\* through .KATI_IMPLICIT_OUTPUTS
ImplicitPairs ==
  UNION {{<<plan_ev.rule_vars[i].symbol, out>> :
            out \in Range(plan_ev.rule_vars[i].implicit_outputs)} :
           i \in 1..Len(plan_ev.rule_vars)}

\* C14: once planned, an implicit output and its primary target are the same
\* DepNode in the node map, whichever of the two was requested first, and
\* the output of that node is the primary target.
C14_ImplicitOutputSameNode ==
  Planned =>
    \A pr \in ImplicitPairs :
      (pr[2] \in DOMAIN done /\ pr[1] \in DOMAIN rules) =>
        /\ pr[1] \in DOMAIN done
        /\ done[pr[2]] = done[pr[1]]
        /\ dep_nodes[done[pr[2]]].output = pr[1]

\* The commands of the rules rs from the i-th on, in the order of rs
RECURSIVE CmdsInOrder(_, _)
CmdsInOrder(rs, i) ==
  IF i > Len(rs) THEN <<>> ELSE rs[i].cmds \o CmdsInOrder(rs, i + 1)

\* C15: the DepNode of a target declared by double-colon rules has the
\* commands of all of them, in the order of declaration, and the
\* prerequisites of all of them.
C15_DoubleColonCoexist ==
  Planned =>
    \A o \in Targets : DoubleColons(o) =>
      \A k \in NodesOf(o) :
        /\ dep_nodes[k].cmds = CmdsInOrder(RulesFor(o), 1)
        /\ NodeInputs(dep_nodes[k]) = ExplicitInputs(o)

\* C15 witness: a:: b / a:: ; echo one / a:: c ; echo two was planned, and
\* the node of a has echo one then echo two and the prerequisites b and c
C15_Witness ==
  /\ Planned /\ DoubleColons(SymA) /\ Len(RulesFor(SymA)) = 3
  /\ \E k \in NodesOf(SymA) :
       /\ dep_nodes[k].cmds = <<"echo one", "echo two">>
       /\ dep_nodes[k].actual_inputs = <<SymB, SymC>>

\* The targets declared both by single-colon and by double-colon rules
Mixed == {o \in Targets : ~SingleColon(o) /\ ~DoubleColons(o)}

\* C16: when a target is declared both by a single-colon rule and by a
\* double-colon rule, in either order, DepBuilder::new fails with the error
\* about : and :: entries and nothing is planned.
C16_MixedColonsError ==
  (plan_pc # "new" /\ Mixed # {}) =>
    /\ plan_err = "*** target file has both : and :: entries."
    /\ plan_pc = "done" /\ dep_nodes = <<>> /\ DOMAIN done = {}

\* C16 witness: a:: b ; echo one / a: c was refused
C16_Witness ==
  /\ plan_pc = "done" /\ SymA \in Mixed
  /\ RulesFor(SymA)[1].is_double_colon /\ ~RulesFor(SymA)[2].is_double_colon
  /\ plan_err = "*** target file has both : and :: entries."

\* a: b / a:: c ; echo one was refused
SingleThenDoubleRefused ==
  /\ plan_pc = "done" /\ SymA \in Mixed
  /\ ~RulesFor(SymA)[1].is_double_colon /\ RulesFor(SymA)[2].is_double_colon
  /\ plan_err = "*** target file has both : and :: entries."

\* The command worker has checked the recorded find command
FindChecked == cmd_i = 2 /\ commands[1].op = "Find"

\* The mtime of a recorded directory, or of what it links to, is newer than
\* the generation time
Newer(sr, dir) ==
  dir \in sr.modified \/ (dir \in sr.links /\ dir \in sr.target_modified)

\* A recorded directory is gone, or links to nothing
Gone(sr, dir) ==
  dir \notin sr.present \/ (dir \in sr.links /\ dir \in sr.target_missing)

AppearedOrDeleted(sr) ==
  \/ \E dir \in sr.missing_dirs : dir \in sr.present
  \/ \E file \in sr.files : file \notin sr.present

\* C21 (as claimed): a recorded find command is not run again exactly when
\* none of its missing_dirs exists now, none of its files was deleted and
\* none of its read_dirs is newer than the generation time; when it is run
\* again and its output differs, the check asks for regeneration.
C21_SkipExactlyWhenUnchanged ==
  FindChecked =>
    /\ shell_runs = <<>>
         <=> ~(\/ AppearedOrDeleted(commands[1])
               \/ \E dir \in commands[1].read_dirs : Newer(commands[1], dir))
    /\ (shell_runs # <<>> /\ commands[1].output # commands[1].result)
         => cmd_res = "OkTrue"

\* The recorded directories whose change should_run_command does not look at
Exempt(dir) == dir = <<>> \/ dir = <<".">> \/ should_ignore_dirty(dir)

Stale(sr) ==
  \/ AppearedOrDeleted(sr)
  \/ \E dir \in sr.read_dirs : ~Exempt(dir) /\ (Newer(sr, dir) \/ Gone(sr, dir))

\* C21 (amended): a recorded find command is skipped, with Ok(false),
\* exactly when none of its missing_dirs exists now, none of its files was
\* deleted and each of its read_dirs other than the top directory and those
\* --ignore_dirty covers still exists and is, as is what it links to, not
\* newer than the generation time.  Otherwise it is parsed, skipped as well
\* when its chdir directory is covered by --ignore_dirty, and else run
\* again: a differing output asks for regeneration, a command that cannot
\* be parsed or run is an error.
C21_SkipUnlessStale ==
  FindChecked =>
    IF ~Stale(commands[1]) THEN shell_runs = <<>> /\ cmd_res = "OkFalse"
    ELSE IF ~commands[1].parse_ok THEN shell_runs = <<>> /\ cmd_res = "Err"
    ELSE IF commands[1].chdir # None /\ should_ignore_dirty(commands[1].chdir)
    THEN shell_runs = <<>> /\ cmd_res = "OkFalse"
    ELSE /\ shell_runs = <<commands[1].cmd>>
         /\ cmd_res = IF ~commands[1].run_ok THEN "Err"
                      ELSE IF commands[1].output # commands[1].result THEN "OkTrue"
                      ELSE "OkFalse"

\* C21 witness: the find command that read d, now newer, was run again and
\* its output differed; nothing else about it has changed
C21_Witness ==
  /\ FindChecked /\ ~AppearedOrDeleted(commands[1])
  /\ commands[1].read_dirs = {<<"d">>} /\ <<"d">> \in commands[1].modified
  /\ shell_runs = <<commands[1].cmd>> /\ cmd_res = "OkTrue"

\* The find command that read only the top directory, now newer, was skipped
TopDirectorySkipped ==
  /\ FindChecked /\ ~AppearedOrDeleted(commands[1])
  /\ commands[1].read_dirs = {<<".">>} /\ <<".">> \in commands[1].modified
  /\ shell_runs = <<>> /\ cmd_res = "OkFalse"

(***************************************************************************)
(* parser.rs: conditionals.                                                *)
(***************************************************************************)
\* the line the parser has just read
LastLine == parser.buf[Len(parser.buf)]

\* this step parses a line that parse_line takes for the directive d
ParsesDirective(d) ==
  /\ mk_pc = "parse"
  /\ Len(parser'.buf) = Len(parser.buf) + 1
  /\ parser'.err = ""
  /\ reads_directive(parser, parser'.buf[Len(parser'.buf)])
  /\ get_directive(trim_left_space(parser'.buf[Len(parser'.buf)])) = d

\* this step parses an else that chains a conditional
ParsesElseIf ==
  /\ ParsesDirective(<<"e", "l", "s", "e">>)
  /\ get_directive(directive_rest(trim_left_space(parser'.buf[Len(parser'.buf)])))
       \in IfDirectives

\* C22: a conditional chained after else is pushed one level deeper than the
\* conditional it continues, and the endif that closes a conditional leaves
\* the conditional stack and the current statement list as they were before
\* the line that opened it, however many else-if branches were chained on it
\* and wherever it is nested
C22_EndifRestores ==
  [][/\ ParsesElseIf =>
          /\ Len(parser'.if_stack) = Len(parser.if_stack) + 1
          /\ parser'.if_stack[Len(parser'.if_stack)].num_nest
               = parser.if_stack[Len(parser.if_stack)].num_nest + 1
     /\ ParsesDirective(<<"e", "n", "d", "i", "f">>) =>
          /\ if_open # <<>>
          /\ parser'.if_stack = if_open[Len(if_open)].if_stack
          /\ parser'.out_stmts = if_open[Len(if_open)].out_stmts]_vars

\* the conditional of line a has the conditional of line b chained on its else
Chained(a, b) ==
  /\ false_stmts(a) \in DOMAIN parser.stmts
  /\ \E i \in 1..Len(parser.stmts[false_stmts(a)]) :
       /\ parser.stmts[false_stmts(a)][i].kind = "If"
       /\ parser.stmts[false_stmts(a)][i].loc = b
       /\ get_directive(parser.buf[b]) = <<"e", "l", "s", "e">>

\* one endif has closed a conditional with two chained else-if branches
C22_Witness ==
  /\ mk_pc = "parse"
  /\ parser.buf # <<>>
  /\ LastLine = <<"e", "n", "d", "i", "f">>
  /\ parser.if_stack = <<>>
  /\ \E a, b, c \in 1..Len(parser.buf) : Chained(a, b) /\ Chained(b, c)

\* an endif has closed a conditional nested in an else-if branch, and the
\* chain is still open
NestedInElseIf ==
  /\ mk_pc = "parse"
  /\ parser.buf # <<>>
  /\ LastLine = <<"e", "n", "d", "i", "f">>
  /\ Len(parser.if_stack) = 2
  /\ parser.if_stack[2].num_nest = 1
  /\ parser.out_stmts = true_stmts(parser.if_stack[2].stmt)

\* this step reads the line as the directive d, with or without an error
ReadsDirective(d) ==
  /\ mk_pc = "parse"
  /\ Len(parser'.buf) = Len(parser.buf) + 1
  /\ reads_directive(parser, parser'.buf[Len(parser'.buf)])
  /\ get_directive(trim_left_space(parser'.buf[Len(parser'.buf)])) = d

\* this step is the end of the input
EndOfInput == mk_pc = "parse" /\ parser'.buf = parser.buf

Rejected == mk_pc' = "done" /\ mk_err' # ""

\* C25: parse_file fails when the input ends inside a define or with a
\* conditional open, and when it reads an else or an endif while no
\* conditional is open
C25_Unbalanced ==
  [][/\ EndOfInput /\ (parser.define_name # None \/ if_open # <<>>) => Rejected
     /\ (ReadsDirective(<<"e", "l", "s", "e">>) \/ ReadsDirective(<<"e", "n", "d", "i", "f">>)) /\ if_open = <<>>
          => Rejected]_vars

\* a makefile was rejected for a define without endef
C25_Witness ==
  /\ mk_pc = "done"
  /\ mk_err = "*** missing 'endef', unterminated 'define'."
  /\ parser.define_name # None

\* a makefile was rejected for a conditional without endif
MissingEndif ==
  mk_pc = "done" /\ mk_err = "*** missing 'endif'." /\ if_open # <<>>

\* a makefile was rejected for an else, or an endif, outside a conditional
ExtraneousElse ==
  mk_pc = "done" /\ mk_err = "*** extraneous 'else'." /\ if_open = <<>>

ExtraneousEndif ==
  mk_pc = "done" /\ mk_err = "*** extraneous 'endif'." /\ if_open = <<>>

(***************************************************************************)
(* parser.rs: recipe lines.                                                *)
(***************************************************************************)
\* the statements of every list of the parser
ParsedStmts ==
  UNION {{parser.stmts[n][i] : i \in 1..Len(parser.stmts[n])} : n \in DOMAIN parser.stmts}

\* no rule has been declared so far
NoRuleYet == \A s \in ParsedStmts : s.kind # "Rule"

\* this step reads a line that begins with a tab
ReadsTabLine ==
  /\ mk_pc = "parse"
  /\ Len(parser'.buf) = Len(parser.buf) + 1
  /\ starts_with(parser'.buf[Len(parser'.buf)], <<"\t">>)

CommenceError ==
  mk_pc' = "done" /\ mk_err' = "*** commands commence before first target."

\* C24 as claimed: a tab-indented line read before any rule is declared,
\* unless it is blank or a comment, is rejected with "commands commence
\* before first target"
C24_TabBeforeRuleRejected ==
  [][/\ ReadsTabLine
     /\ NoRuleYet
     /\ trim_left_space(parser'.buf[Len(parser'.buf)]) # <<>>
     /\ ~starts_with(trim_left_space(parser'.buf[Len(parser'.buf)]), <<"#">>)
     => CommenceError]_vars

\* the text is neither blank nor a comment, a directive or an assignment
RuleText(t) ==
  /\ t # <<>>
  /\ t[1] # "#"
  /\ get_directive(t) \notin MakeDirectives
  /\ \/ find_outside_paren(t, {":", "=", ";"}) = 0
     \/ t[find_outside_paren(t, {":", "=", ";"})] = ";"
     \/ /\ t[find_outside_paren(t, {":", "=", ";"})] = ":"
        /\ From(t, find_outside_paren(t, {":", "=", ";"}) + 1) # <<>>
             => t[find_outside_paren(t, {":", "=", ";"}) + 1] # "="

\* C24: a tab-indented line read while the parser is not after a rule (none
\* is declared yet, or an assignment or a define followed the last one) is
\* rejected with "commands commence before first target" exactly when its
\* text after the indentation is not blank, a comment, a directive or an
\* assignment
C24_TabRuleTextRejected ==
  [][ReadsTabLine /\ ~parser.after_rule /\ parser.define_name = None
       => (CommenceError
             <=> RuleText(trim_left_space(parser'.buf[Len(parser'.buf)])))]_vars

\* a recipe line before any rule was rejected
C24_Witness ==
  /\ mk_pc = "done"
  /\ mk_err = "*** commands commence before first target."
  /\ NoRuleYet
  /\ starts_with(LastLine, <<"\t">>)

\* a tab-indented assignment before any rule was accepted
TabAssignmentAccepted ==
  /\ mk_pc = "parse"
  /\ parser.buf # <<>>
  /\ NoRuleYet
  /\ LastLine = <<"\t", "X", "=", "1">>
  /\ \E s \in ParsedStmts : s.kind = "Assign"

\* what the current statement list gains in this step
NewStmts ==
  SubSeq(parser'.stmts[parser.out_stmts], Len(parser.stmts[parser.out_stmts]) + 1,
         Len(parser'.stmts[parser.out_stmts]))

\* a tab line read after a rule becomes one Command statement that keeps the
\* line, and the text after the tab, as they are
CapturedVerbatim ==
  ReadsTabLine /\ parser.after_rule /\ parser.define_name = None
    => /\ parser'.err = ""
       /\ parser'.out_stmts = parser.out_stmts
       /\ Len(NewStmts) = 1
       /\ NewStmts[1].kind = "Command"
       /\ NewStmts[1].orig = parser'.buf[Len(parser'.buf)]
       /\ NewStmts[1].expr = Tail(parser'.buf[Len(parser'.buf)])

\* this step evaluates a Command statement
EvaluatesCommand == mk_pc = "eval" /\ eval_todo # <<>> /\ Head(eval_todo).kind = "Command"

\* the recipe is pushed on the last rule, and no rule changes otherwise
AttachedToLast ==
  /\ mk_rules # <<>>
  /\ Len(mk_rules') = Len(mk_rules)
  /\ \A i \in 1..Len(mk_rules) :
       /\ [mk_rules'[i] EXCEPT !.cmds = <<>>, !.cmd_loc = 0]
            = [mk_rules[i] EXCEPT !.cmds = <<>>, !.cmd_loc = 0]
       /\ mk_rules'[i].cmds =
            IF i = Len(mk_rules)
            THEN Append(mk_rules[i].cmds, Tail(Head(eval_todo).orig))
            ELSE mk_rules[i].cmds
  /\ reparsed' = reparsed
  /\ mk_err' = ""

\* C23 as claimed: a tab line read after a rule is captured verbatim as a
\* Command statement, and evaluating the statement pushes its text on the
\* most recent rule
C23_RecipeAttached ==
  [][CapturedVerbatim /\ (EvaluatesCommand => AttachedToLast)]_vars

\* the line is parsed again as makefile text: no rule gets it as a recipe
ParsedAgain ==
  /\ mk_rules' = mk_rules
  /\ reparsed' = Append(reparsed, Head(eval_todo).orig)
  /\ \/ mk_pc' = "done" /\ mk_err' # ""
     \/ /\ mk_err' = ""
        /\ Len(eval_todo') >= Len(eval_todo) - 1
        /\ \A i \in 1..(Len(eval_todo') - Len(eval_todo) + 1) :
             eval_todo'[i].kind \in {"Rule", "Assign"}

\* C23: a tab line read after a rule is captured verbatim as a Command
\* statement; evaluating it pushes its text on the last rule when the
\* statement evaluated before it (conditionals aside) was a rule statement
\* that made a rule, and otherwise hands the line back to the parser
C23_RecipeAttachedInRule ==
  [][/\ CapturedVerbatim
     /\ EvaluatesCommand => IF in_rule THEN AttachedToLast ELSE ParsedAgain]_vars

\* a recipe with a comment sign is on the second of two rules, as written
C23_Witness ==
  /\ Len(mk_rules) = 2
  /\ mk_rules[1].cmds = <<>>
  /\ mk_rules[2].cmds = <<<<"c", " ", "#", " ", "d">>>>
  /\ mk_err = ""

\* the recipe after a target-specific assignment became a global assignment
RecipeReinterpreted ==
  /\ mk_pc = "done"
  /\ mk_err = ""
  /\ reparsed = <<<<"\t", "X", "=", "1">>>>
  /\ mk_rules = <<>>
  /\ mk_rule_vars # {}
  /\ <<"X">> \in DOMAIN ev_vars

(***************************************************************************)
(* eval.rs, rule.rs: rule statements.                                      *)
(***************************************************************************)
\* this step evaluates a Rule statement
EvaluatesRule == mk_pc = "eval" /\ eval_todo # <<>> /\ Head(eval_todo).kind = "Rule"

\* the left-hand side of that statement, expanded
BeforeTerm == eval_to_buf(Head(eval_todo).lhs, ev_vars)

Blank(s) == \A i \in 1..Len(s) : s[i] \in {" ", "\t"}

\* there is a colon, and nothing but blanks before it
EmptyTargets(s) == memchr(":", s) # 0 /\ Blank(SubSeq(s, 1, memchr(":", s) - 1))

MissingSeparator == mk_pc' = "done" /\ mk_err' = "*** missing separator."

\* C26 as claimed: a rule line with nothing before its colon, after
\* expansion, is rejected with "missing separator"
C26_EmptyTargetsRejected ==
  [][EvaluatesRule /\ EmptyTargets(BeforeTerm) => MissingSeparator]_vars

\* C26: "missing separator" rejects exactly the rule lines that, after
\* expansion, have a byte other than blanks and semicolons and no colon; a
\* rule line with nothing before its colon is not rejected for that, and the
\* rule it makes, if any, has neither outputs nor output patterns
C26_NoColonRejected ==
  [][EvaluatesRule =>
       /\ MissingSeparator
            <=> /\ memchr(":", BeforeTerm) = 0
                /\ \E i \in 1..Len(BeforeTerm) : BeforeTerm[i] \notin {" ", "\t", "\n", ";"}
       /\ EmptyTargets(BeforeTerm) /\ in_rule' =>
            /\ mk_err' = ""
            /\ Len(mk_rules') = Len(mk_rules) + 1
            /\ mk_rules'[Len(mk_rules')].outputs = <<>>
            /\ mk_rules'[Len(mk_rules')].output_patterns = <<>>]_vars

\* a rule line without a colon was rejected
C26_Witness ==
  /\ mk_pc = "done"
  /\ mk_err = "*** missing separator."
  /\ \E s \in ParsedStmts : s.kind = "Rule" /\ s.lhs = <<"a">>

\* a rule line whose targets expand to nothing made a rule without outputs
EmptyTargetsAccepted ==
  /\ mk_err = ""
  /\ \E s \in ParsedStmts : s.kind = "Rule" /\ s.lhs = <<"$", "(", "E", ")", ":", " ", "b">>
  /\ \E i \in 1..Len(mk_rules) :
       /\ mk_rules[i].outputs = <<>>
       /\ mk_rules[i].output_patterns = <<>>
       /\ mk_rules[i].inputs = <<<<"b">>>>

\* C29: every accumulated rule has no outputs and no output patterns, or
\* outputs only, or output patterns only, or, for a static pattern rule,
\* outputs and exactly one output pattern
C29_RuleShapes ==
  \A i \in 1..Len(mk_rules) :
    \/ mk_rules[i].outputs = <<>> /\ mk_rules[i].output_patterns = <<>>
    \/ mk_rules[i].outputs # <<>> /\ mk_rules[i].output_patterns = <<>>
    \/ mk_rules[i].outputs = <<>> /\ mk_rules[i].output_patterns # <<>>
    \/ mk_rules[i].outputs # <<>> /\ Len(mk_rules[i].output_patterns) = 1

\* a static pattern rule for two targets is accumulated
C29_Witness ==
  \E i \in 1..Len(mk_rules) :
    /\ mk_rules[i].outputs = <<<<"a", ".", "o">>, <<"b", ".", "o">>>>
    /\ mk_rules[i].output_patterns = <<<<"%", ".", "o">>>>
    /\ mk_rules[i].inputs = <<<<"%", ".", "c">>>>
    /\ mk_rules[i].cmds = <<<<"c">>>>

\* rules of the three other shapes are accumulated
PatternRuleAccumulated ==
  \E i \in 1..Len(mk_rules) :
    mk_rules[i].outputs = <<>> /\ mk_rules[i].output_patterns = <<<<"%", ".", "o">>>>

EmptyRuleAccumulated ==
  \E i \in 1..Len(mk_rules) :
    /\ mk_rules[i].outputs = <<>> /\ mk_rules[i].output_patterns = <<>>
    /\ \E s \in ParsedStmts : s.kind = "Rule" /\ s.loc = mk_rules[i].loc /\ s.lhs = <<":", " ", "%", ":", " ", "b">>

(***************************************************************************)
(* C27, C28: pattern stems and suffix rules.                               *)
(***************************************************************************)
\* The literal prefix and the literal suffix of the pattern
LiteralPrefix == SubSeq(pf_in.pat, 1, percent_index(pf_in.pat) - 1)

LiteralSuffix == SubSeq(pf_in.pat, percent_index(pf_in.pat) + 1, Len(pf_in.pat))

\* The target is the literal prefix, the stem st and the literal suffix
SplitsWith(st) == pf_in.str = LiteralPrefix \o st \o LiteralSuffix

Matched == pf_out # <<>> /\ pf_out.op \in {"matches", "get", "pick"} /\ pf_out.ret = TRUE

\* C27 as claimed: a pattern rule is matched to a target only with a
\* non-empty stem; a target that is the literal prefix followed by the
\* literal suffix is not matched.
C27_StemNonEmpty == Matched => ~SplitsWith(<<>>) /\ Len(pf_in.str) >= Len(pf_in.pat)

\* C27 (amended): a pattern rule is matched to every target that is the
\* literal prefix, a stem and the literal suffix, the empty stem included:
\* the pattern matches it, the trie returns the rule, the rule is picked, and
\* the stem of the match is that stem.
C27_EmptyStemMatched ==
  pf_out # <<>> =>
    \A st \in StrsUpTo({"a", "."}, MaxStr) :
      SplitsWith(st) =>
        IF pf_out.op = "stem" THEN pf_out.ret = st ELSE pf_out.ret = TRUE

\* A rule picked for the target that leaves the empty stem
C27_Witness == pf_out # <<>> /\ pf_out.op = "pick" /\ pf_out.ret = TRUE /\ SplitsWith(<<>>)

\* The stem of a match is asked for and is empty
EmptyStem ==
  pf_out # <<>> /\ pf_out.op = "stem" /\ pf_out.ret = <<>> /\ matches(pf_in.pat, pf_in.str)

\* The dots of the target
Dots(output) == {i \in 1..Len(output) : output[i] = "."}

\* .IN.OUT: a dot first, one more dot, bytes between them and after them
TwoComponents(output) ==
  /\ output[1] = "."
  /\ Cardinality(Dots(output)) = 2
  /\ \E i \in Dots(output) : 2 < i /\ i < Len(output)

\* C28: a target is classified as a suffix rule if and only if it begins
\* with a dot, has exactly two dots, and neither dotted component is empty.
C28_SuffixRuleShape ==
  pf_out # <<>> /\ pf_out.op = "is_suffix_rule" =>
    (pf_out.ret <=> TwoComponents(pf_in.output))

\* What is_suffix_rule does hold of: a dot first, bytes before the second
\* dot, no third dot
SuffixRuleAsCoded ==
  pf_out # <<>> /\ pf_out.op = "is_suffix_rule" =>
    (pf_out.ret <=> /\ pf_in.output[1] = "."
                    /\ Cardinality(Dots(pf_in.output)) = 2
                    /\ 2 \notin Dots(pf_in.output))

(***************************************************************************)
(* C30: the delayed output commands.                                       *)
(***************************************************************************)
\* eval is called for a target
BeginsEval == ce_pc = "ready" /\ ce_pc' = "cmds"

\* eval evaluates a recipe line of the target
EvaluatesLine == ce_pc = "cmds" /\ ce_pc' # "ready"

\* eval returns the commands of the target
ReturnsCommands == ce_pc = "cmds" /\ ce_pc' = "ready"

\* The strings are queued behind those already in the queue
QueuedBehind ==
  /\ Len(delayed_output_commands) <= Len(delayed_output_commands')
  /\ SubSeq(delayed_output_commands', 1, Len(delayed_output_commands))
       = delayed_output_commands

\* The command list returned is the queued strings in their order, then the
\* recipe commands
QueuedThenRecipe ==
  /\ Len(ce_result') = Len(delayed_output_commands) + Len(ce_result)
  /\ \A i \in 1..Len(delayed_output_commands) :
       /\ ce_result'[i].cmd = delayed_output_commands[i]
       /\ ce_result'[i].output = ce_node.output
       /\ ce_result'[i].force_no_subshell
  /\ \A i \in 1..Len(ce_result) :
       ce_result'[Len(delayed_output_commands) + i] = ce_result[i]

\* C30: delayed_output_commands is a FIFO: the strings queued while the
\* recipe of a target is evaluated are emitted in the order queued as the
\* prefix of the command list of that target, before all of its recipe
\* commands, and the queue is empty when the recipe of the next target is
\* evaluated.
C30_DelayedOutputFifo ==
  [][/\ BeginsEval => delayed_output_commands = <<>>
     /\ EvaluatesLine => QueuedBehind
     /\ ReturnsCommands => QueuedThenRecipe /\ delayed_output_commands' = <<>>]_vars

\* A command list returned with two queued strings before the recipe
\* commands, the second queued after recipe commands were made
C30_Witness ==
  /\ ce_pc = "ready"
  /\ Len(ce_result) >= 4
  /\ ce_result[1].force_no_subshell /\ ce_result[2].force_no_subshell
  /\ ce_result[1].cmd # ce_result[2].cmd
  /\ ~ce_result[3].force_no_subshell
  /\ Len(ce_node.cmds) = 2
  /\ \E i \in 1..Len(ce_node.cmds[1].v.vec) : ce_node.cmds[1].v.vec[i].t = "Literal"
  /\ \E i \in 1..Len(ce_node.cmds[2].v.vec) : ce_node.cmds[2].v.vec[i].t = "Func"

\* A recipe line is evaluated with strings in the queue
QueueInUse == ce_pc = "cmds" /\ Len(delayed_output_commands) = 2

\* error outside avoid_io ends the evaluation
EvalFailed == ce_pc = "failed"

(***************************************************************************)
(* C37: the cell of check_step2.                                           *)
(***************************************************************************)
\* check_step2 has joined the workers and needs_regen() returns
StampCheckReturns == regen_pc = "step2" /\ regen_pc' = "done"

\* C37: the shared cell changes value at most once: after a worker has
\* stored "must regenerate" or an error no later write replaces it, and the
\* check answers what is stored, an error counting as "must regenerate".
C37_CellWrittenOnce ==
  [][/\ needs_regen # "OkFalse" => needs_regen' = needs_regen
     /\ StampCheckReturns /\ needs_regen # "OkFalse" => regen_ret' = TRUE]_vars

\* The glob worker stored "must regenerate", the command worker came to the
\* cell with an error afterwards, and the check answered "regenerate"
C37_Witness ==
  /\ regen_pc = "done" /\ regen_ret = TRUE
  /\ needs_regen = "OkTrue"
  /\ cmd_pc = "exit" /\ cmd_res = "Err"
  /\ glob_pc = "exit" /\ stderr = <<"glob">>

(***************************************************************************)
(* C39: the recursion guard.                                               *)
(***************************************************************************)
\* The symbols of the references that have begun and not finished
ReferencesInProgress == {work[i].sym : i \in {j \in 1..Len(work) : work[j].k = "complete"}}

\* C39: the recursion guard is balanced: while references are evaluated the
\* set holds exactly the symbols of the references in progress, so that a
\* reference that finishes leaves the set as it was when it began, and after
\* an evaluation without error the set is as it was before it.
C39_GuardBalanced ==
  /\ exp_pc = "running" => symbols_for_eval = ReferencesInProgress
  /\ exp_pc = "done" /\ ev_error = "" => symbols_for_eval = {}

\* $(X)$(X) was evaluated without error: the second reference, not nested
\* in the first, was not taken for a recursion
C39_Witness ==
  /\ exp_pc = "done" /\ ev_error = ""
  /\ symbol_data[SymX] # NoVar /\ symbol_data[SymY] = Recursive(Literal(<<"f">>))
  /\ bufs = << <<"f", "f">> >>

(***************************************************************************)
(* C33: substitution under a pattern.                                      *)
(***************************************************************************)
\* C33: pattern substitution never panics: for every pattern with a %,
\* every word and every replacement, patsubst, a substitution reference and
\* the extraction of the stem return a value.
C33_SubstNeverPanics == pf_out # <<>> => pf_out.ret # Panic

\* $(patsubst a%a,%,a): the word is shorter than the prefix and the suffix
\* of the pattern together, and each of them is the word
ShortWordSubst ==
  /\ pf_in = [pat |-> <<"a", "%", "a">>, str |-> <<"a">>, subst |-> <<"%">>]
  /\ pf_out # <<>> /\ pf_out.op = "patsubst" /\ pf_out.ret = Panic

(***************************************************************************)
(* C38: $(value V).                                                        *)
(***************************************************************************)
\* $(value NAME) has been expanded for a recursive variable
ValueOfRecursive ==
  /\ exp_pc = "done" /\ work # <<>> /\ work[1].k = "value"
  /\ symbol_data[work[1].sym] # NoVar /\ symbol_data[work[1].sym].flavor = "Recursive"

\* C38: the source text kept for a recursive variable stays in step with
\* its tree: $(value V) returns the text of the whole definition, a b after
\* V = a and V += b.
C38_ValueInStep ==
  ValueOfRecursive => bufs[1] = eval_literal(symbol_data[work[1].sym].value)

\* X = a, X += b, then $(value X) is a
ValueAfterAppend ==
  /\ ValueOfRecursive /\ work[1].sym = SymX
  /\ symbol_data[SymX].value = List(<<Literal(<<"a">>), Literal(<<" ">>), Literal(<<"b">>)>>)
  /\ bufs[1] = <<"a">>

(***************************************************************************)
(* C34: the node map of the planner.                                       *)
(***************************************************************************)
\* The edges <<symbol, node>> of a node, and of the nodes allocated so far
EdgesOf(node) ==
  {node.deps[i] : i \in 1..Len(node.deps)}
    \cup {node.order_onlys[i] : i \in 1..Len(node.order_onlys)}
    \cup {node.validations[i] : i \in 1..Len(node.validations)}

Edges == UNION {EdgesOf(dep_nodes[k]) : k \in 1..Len(dep_nodes)}

\* C34: once the node map associates an output with a DepNode, no later
\* step of the planner associates it with another one, and every edge to
\* that output refers to that node.
C34_NodeMapStable ==
  [][/\ \A o \in DOMAIN done : o \in DOMAIN done' /\ done'[o] = done[o]
     /\ \A e \in Edges : e[1] \in DOMAIN done => e[2] = done[e[1]]]_vars

\* x.b, recorded for the node of d, is recorded again for the node of x.a
Reassociated ==
  /\ SymXb \in DOMAIN done /\ SymD \in DOMAIN done /\ SymXa \in DOMAIN done
  /\ done[SymXb] = done[SymXa] /\ done[SymXb] # done[SymD]
  /\ dep_nodes[done[SymD]].implicit_outputs # <<>>

(***************************************************************************)
(* C31: the positional variables of a call.                                *)
(***************************************************************************)
\* What $(1), $(2), ... are inside the calls cs nested in one another, the
\* innermost last: the arguments of the innermost call, the empty string
\* where an enclosing call bound the variable, and else what the makefile
\* bound
RECURSIVE Positional(_)
Positional(cs) ==
  IF cs = <<>> THEN PosMakefile
  ELSE [s \in PosSyms |->
          IF \E i \in 1..Len(cs[Len(cs)].av) : s = tmpvar_name_sym(i)
          THEN cs[Len(cs)].av[CHOOSE i \in 1..Len(cs[Len(cs)].av) : s = tmpvar_name_sym(i)]
          ELSE IF \E c \in 1..(Len(cs) - 1) : \E i \in 1..Len(cs[c].av) : s = tmpvar_name_sym(i)
          THEN new_simple("Automatic")
          ELSE PosMakefile[s]]

\* C31: during a call $(1)..$(k) are the arguments and the positional
\* variables of higher index that an enclosing call set read as empty; when
\* a call returns, from whatever depth, every positional variable has the
\* binding it had before the call.
C31_PositionalScoped == symbol_data = Positional(work)

\* a call returned into a call of three arguments, where $(3) is the third
\* argument again, not the x of the makefile and not empty
C31_Witness ==
  /\ Len(work) = 1 /\ Len(work[1].av) = 3 /\ eval_depth = 0
  /\ symbol_data[tmpvar_name_sym(3)] = with_simple_string(<<"b">>, "Automatic")
  /\ exp_pc = "resumed" /\ ev_error = ""

(***************************************************************************)
(* C32: interning.                                                         *)
(***************************************************************************)
\* C32: for all byte strings a and b, intern(a) and intern(b) are handles
\* that are equal if and only if a = b, whatever calls of intern came
\* before and between them; the handle of a string of one byte is the byte.
C32_InternInjective ==
  \A i \in 1..Len(interned) :
    /\ ~interned[i].panicked
    /\ Len(interned[i].s) = 1 => interned[i].sym = interned[i].s[1]
    /\ \A j \in 1..Len(interned) :
         interned[i].sym = interned[j].sym <=> interned[i].s = interned[j].s

\* intern of the string that is the byte 0
InternOfNul == interned # <<>> /\ interned[Len(interned)].s = <<0>> /\ interned[Len(interned)].panicked

\* Leaving that string out, the calls answer as C32 says
InternInjectiveButNul ==
  \A i \in 1..Len(interned) :
    interned[i].s # <<0>> =>
      /\ ~interned[i].panicked
      /\ Len(interned[i].s) = 1 => interned[i].sym = interned[i].s[1]
      /\ \A j \in 1..Len(interned) :
           interned[i].sym = interned[j].sym <=> interned[i].s = interned[j].s

(***************************************************************************)
(* C35, C36: direct execution.                                             *)
(***************************************************************************)
\* The commands of the node of output o were run
Ran(o) == \E i \in 1..Len(exec_ran) : exec_ran[i] = o

\* C35: when the execution has ended, the recipe of every target that is
\* not phony, was visited and lists as a normal prerequisite a node whose
\* recipe was run, was run too.
C35_RebuildPropagates ==
  exec_pc = "done" =>
    \A t \in DOMAIN exec_done :
      \A k \in 1..Len(exec_nodes[t].deps) :
        (Ran(exec_nodes[t].deps[k]) /\ ~exec_nodes[t].is_phony) => Ran(t)

\* T: p / p: q, without a cycle: q is newer than p, T is newer than both,
\* the recipe of p was run and that of T was not
RebuiltButStale ==
  /\ exec_pc = "done" /\ exec_stderr = <<>>
  /\ exec_nodes[OutT].deps = <<OutP>> /\ exec_nodes[OutP].deps = <<OutQ>>
  /\ exec_roots = <<OutT>>
  /\ exec_ran = <<OutP>>

\* No recipe was run twice
RanOnce == \A i, j \in 1..Len(exec_ran) : exec_ran[i] = exec_ran[j] => i = j

\* exec_node is called on a node that is in progress
ReEnters ==
  /\ Calls
  /\ Executor_done_get(exec_done, Callee).found
  /\ Executor_done_get(exec_done, Callee).status = Processing
  /\ <<exec_stack, exec_root_i>>' # <<exec_stack, exec_root_i>>

\* the call is dropped with the warning
Dropped ==
  /\ exec_stderr' = Append(exec_stderr, CircularWarning(NeededBy, Callee))
  /\ Len(exec_stack') = Len(exec_stack)
  /\ exec_ran' = exec_ran /\ exec_done' = exec_done

\* C36: in one execution the recipe of each node is run at most once, in a
\* shared and in a cyclic graph too: a node entered again while it is in
\* progress is dropped with the warning of the circular dependency, and the
\* execution ends.
C36_RunOnceAndEnds ==
  /\ [](RanOnce)
  /\ [][ReEnters => Dropped]_vars
  /\ <>(exec_pc \in {"done", "failed"})

\* T: p / p: T was executed: p was dropped under T with the warning, and
\* each of the two recipes was run
C36_Witness ==
  /\ exec_pc = "done"
  /\ exec_nodes[OutP].deps = <<OutT>>
  /\ exec_stderr = <<CircularWarning(OutP, OutT)>>
  /\ exec_ran = <<OutP, OutT>>

(***************************************************************************)
(* C40: the lookahead of the find-command parser.                          *)
(***************************************************************************)
\* C40: the parser holds at most one token of lookahead: on every text
\* unget_token is never called while unget_tok holds a token, so that its
\* assertion never fails.
C40_OneTokenLookahead ==
  (pf_out # <<>> /\ pf_out.op = "parse_find") => ~pf_out.ret.p.panicked

\* -name x x was parsed: parse_term put the second x back, parse_expr read
\* it and put it back again, and parse_find read it as a directory
C40_Witness ==
  /\ pf_in.cur = <<"-", "n", "a", "m", "e", " ", "x", " ", "x">>
  /\ pf_out # <<>> /\ pf_out.op = "parse_find"
  /\ pf_out.ret.ret /\ ~pf_out.ret.p.panicked
  /\ pf_out.ret.p.fc.print_cond = new_name(<<"x">>)
  /\ pf_out.ret.p.fc.finddirs = <<<<"x">>>>
  /\ pf_out.ret.p.unget_tok = None

====
